---- MODULE Spec2Model ----
(***************************************************************************)
(* Device presence and identity tracking of libremidi_flutter.             *)
(*                                                                         *)
(* Ten specifications over one set of variables:                           *)
(*   Spec      the Android observer (observer.hpp): construction, the      *)
(*             MidiManager device callbacks and the diff against the port  *)
(*             cache, one callback at a time as the main looper runs them;  *)
(*   SpecEnum  the same observer where an enumeration may find the JNI     *)
(*             environment, the context or the MIDI service missing;       *)
(*   SpecGate  the process-wide hotplug gate of android_helpers.cpp and    *)
(*             the observer's destructor, statement by statement, with the *)
(*             JNI callback thread and the disposing thread interleaved;   *)
(*   SpecMac   the C wrapper of libremidi_flutter.cpp (LrmObserver, the    *)
(*             CoreMIDI notification handler, count/get/free);             *)
(*   SpecDup   the wrapper where two units of one device may be plugged    *)
(*             in, which share every identifying field;                    *)
(*   SpecRace  refreshInternal of the wrapper statement by statement, run  *)
(*             by the caller's thread and by the notification queue;       *)
(*   SpecApi   the wrapper's observer functions called with a null, a live *)
(*             and a freed handle and with indices around the cache;       *)
(*   SpecId    fill_port_info of libremidi_flutter.cpp applied to two      *)
(*             ports drawn from a bounded set (the stable id);             *)
(*   SpecLong  fill_port_info applied to ports whose strings are about as  *)
(*             long as the fields of LrmPortInfo they are copied to;       *)
(*   SpecList  get_input_ports / get_output_ports of the Android observer  *)
(*             statement by statement on two threads, over the device list *)
(*             context::midi_ports that every enumeration clears and fills.*)
(*                                                                         *)
(* Strings are sequences of byte values; a 64-bit unsigned value is the    *)
(* sequence of its eight bytes, least significant first.                   *)
(***************************************************************************)
EXTENDS Integers, Sequences, FiniteSets, TLC

\* ------------------------------------------------------------------ bounds

\* topology changes the backend makes in one behaviour
MaxChanges == 3
\* signals / notifications that may wait for their handler at one time
MaxQueue == 2
\* topology changes while a wrapper observer lives
MaxMacChanges == 2

\* lrm_observer_free calls on one handle
MaxFree == 2

\* ------------------------------------------------------- the port universe

\* The MIDI ports the platform can show. Port 1 is a virtual port whose
\* manufacturer, product and serial are all empty; port 3 has a name byte
\* above 0x7f. android_type is MidiDeviceInfo.getType().
DevFields ==
    << [port_name |-> <<65>>, manufacturer |-> <<>>, product |-> <<>>,
        serial |-> <<>>, android_type |-> 2],
       [port_name |-> <<66>>, manufacturer |-> <<77>>, product |-> <<80>>,
        serial |-> <<49>>, android_type |-> 1],
       [port_name |-> <<200>>, manufacturer |-> <<77>>, product |-> <<>>,
        serial |-> <<>>, android_type |-> 3] >>

Devs == DOMAIN DevFields

Dirs == {"input", "output"}

\* libremidi::transport_type bits
LRM_TRANSPORT_UNKNOWN == 0
LRM_TRANSPORT_SOFTWARE == 2
LRM_TRANSPORT_LOOPBACK == 4
LRM_TRANSPORT_HARDWARE == 8
LRM_TRANSPORT_USB == 16
LRM_TRANSPORT_BLUETOOTH == 32

VARIABLES
    \* ---- the platform backend
    topology,        \* [dir -> sequence of [dev, ref]]: the ports now present
    history,         \* the topology changes made so far: <<op, dir, dev>>
    \* ---- the Android observer (observer.hpp)
    obs_state,       \* "Uninitialized", "Active", "Disposed"
    configuration,   \* the four callbacks (set or not), notify_in_constructor
    cached_inputs,
    cached_outputs,
    signals,         \* device callbacks posted to the main looper, in order
    calls,           \* every callback invocation so far: <<callback, dev>>
    last,            \* what the last device callback handler did
    \* ---- the C wrapper (libremidi_flutter.cpp)
    char_signed,     \* whether plain char is signed on the build's platform
    lrm_state,       \* the caller's handle: "null", "live", "freed"
    input_ports,     \* LrmObserver::input_ports
    output_ports,    \* LrmObserver::output_ports
    hotplug_callback,\* LrmObserver::hotplug_callback is not null
    midiClient,      \* LrmObserver::midiClient, 0 when there is none
    notifications,   \* MIDINotifications waiting for the client's block
    hotplug_calls,   \* the event types the hotplug callback was called with
    mac_last,        \* what the last notification handler or refresh did
    free_calls,      \* lrm_observer_free calls on the handle so far
    fault,           \* the outcome of undefined behaviour, "none" if none
    \* ---- fill_port_info on drawn arguments
    fill_in,         \* the arguments of two calls
    fill_out,        \* the two records written, <<>> before the calls
    fill_mem,        \* the bytes written to the string fields of the two
                     \* records, by field and offset, <<>> before the calls
    \* ---- the hotplug gate and the observers' lifetimes (android_helpers.cpp)
    g_active_hotplug_observer,
    g_on_device_added,      \* the pointer is not null
    g_on_device_removed,    \* the pointer is not null
    ob,              \* per observer: state, has_callbacks, midi_manager,
                     \* device_callback
    java_callback,   \* per observer: its MidiDeviceStatusCallback object
    unregistered,    \* per observer: clear_hotplug_observer has returned
    app_pc,          \* the thread that constructs and destroys observers
    jni_pc,          \* the thread that runs the Java device callbacks
    gate_call,       \* the last handler the gate invoked
    gate_fault,      \* "none", or how the process died
    superseded,      \* the observers whose registration was overwritten
    gate_drop,       \* the last signal the gate dropped
    \* ---- refreshInternal of the wrapper, statement by statement
    refresh_pc,      \* per thread: its position in refreshInternal
    refresh_tmp,     \* per thread: the vector it enumerated last
    \* ---- one call of the wrapper's API on a handle
    api_last,        \* the last call: operation, handle, result
    \* ---- the device list of the Android backend (android_helpers.cpp)
    midi_ports,      \* context::midi_ports: one entry for each port listed
    enum_pc,         \* per thread: its position in get_input_ports /
                     \* get_output_ports
    enum_last        \* the last enumeration that returned

obsVars == <<obs_state, configuration, cached_inputs, cached_outputs,
             signals, calls, last>>
envVars == <<topology, history>>
macVars == <<char_signed, lrm_state, input_ports, output_ports,
             hotplug_callback, midiClient, notifications, hotplug_calls,
             mac_last, free_calls, fault>>
idVars == <<fill_in, fill_out, fill_mem>>
gateVars == <<g_active_hotplug_observer, g_on_device_added,
              g_on_device_removed, ob, java_callback, unregistered, app_pc,
              jni_pc, gate_call, gate_fault, superseded, gate_drop>>
raceVars == <<refresh_pc, refresh_tmp>>
apiVars == <<api_last>>
listVars == <<midi_ports, enum_pc, enum_last>>

\* --------------------------------------------------------------- sequences

RECURSIVE SeqSum(_)
SeqSum(s) == IF s = <<>> THEN 0 ELSE Head(s) + SeqSum(Tail(s))

Count(s, x) == Cardinality({i \in 1..Len(s) : s[i] = x})

Remove(s, i) == SubSeq(s, 1, i - 1) \o SubSeq(s, i + 1, Len(s))

DevsOf(t) == {t[i].dev : i \in 1..Len(t)}

\* ---------------------------------------------------- android: enumeration

\* observer.hpp 132-149: MidiDeviceInfo type -> libremidi::transport_type
AndroidTransport(android_type) ==
    CASE android_type = 1 -> LRM_TRANSPORT_HARDWARE + LRM_TRANSPORT_USB
      [] android_type = 2 -> LRM_TRANSPORT_SOFTWARE
      [] android_type = 3 -> LRM_TRANSPORT_HARDWARE + LRM_TRANSPORT_BLUETOOTH
      [] OTHER -> LRM_TRANSPORT_UNKNOWN

\* One libremidi port of the Android backend: port.port is the position in
\* context::midi_ports, the identifying strings come from the device.
AndroidPort(i, d) ==
    [port |-> i,
     client |-> 0,
     port_name |-> DevFields[d].port_name,
     device_name |-> IF DevFields[d].product = <<>>
                     THEN DevFields[d].port_name ELSE DevFields[d].product,
     display_name |-> DevFields[d].port_name,
     manufacturer |-> DevFields[d].manufacturer,
     product |-> DevFields[d].product,
     serial |-> DevFields[d].serial,
     type |-> AndroidTransport(DevFields[d].android_type)]

\* get_input_ports / get_output_ports on a thread with a JNI environment
get_ports(dir) ==
    [i \in 1..Len(topology[dir]) |-> AndroidPort(i - 1, topology[dir][i].dev)]

get_input_ports == get_ports("input")

get_output_ports == get_ports("output")

\* ------------------------------------------------------- android: the diff

\* A plausible slip: the enumeration index becomes part of the key.
port_key_with_index(p) ==
    <<p.port>> \o p.port_name \o <<124>> \o p.manufacturer \o <<124>>
        \o p.product \o <<124>> \o p.serial

\* port_name + "|" + manufacturer + "|" + product + "|" + serial
port_key(p) ==
    p.port_name \o <<124>> \o p.manufacturer \o <<124>> \o p.product
        \o <<124>> \o p.serial

Keys(s) == {port_key(s[i]) : i \in 1..Len(s)}

\* the elements of s whose key is not in keys, in the order of s
RECURSIVE KeyAbsent(_, _)
KeyAbsent(s, keys) ==
    IF s = <<>> THEN <<>>
    ELSE (IF port_key(Head(s)) \in keys THEN <<>> ELSE <<Head(s)>>)
             \o KeyAbsent(Tail(s), keys)

\* diff_added: the ports of current that the cache lacks; the cache becomes
\* current.
diff_added(current, cache) ==
    [result |-> KeyAbsent(current, Keys(cache)), cache |-> current]

\* diff_removed: the ports of the cache that current lacks; the cache
\* becomes current.
diff_removed(current, cache) ==
    [result |-> KeyAbsent(cache, Keys(current)), cache |-> current]

\* the identifying fields of a port, and the port of the universe they name
Fields(p) == <<p.port_name, p.manufacturer, p.product, p.serial>>

DevOf(p) == CHOOSE d \in Devs : Fields(DevFields[d]) = Fields(p)

Invocations(cb, ports) == [i \in 1..Len(ports) |-> <<cb, DevOf(ports[i])>>]

NoLast ==
    [kind |-> "none",
     failed |-> FALSE,
     ran |-> [input |-> FALSE, output |-> FALSE],
     old |-> [input |-> <<>>, output |-> <<>>],
     new |-> [input |-> <<>>, output |-> <<>>],
     added |-> [input |-> <<>>, output |-> <<>>],
     removed |-> [input |-> <<>>, output |-> <<>>],
     fired |-> <<>>,
     seen |-> [input |-> <<>>, output |-> <<>>],
     after |-> [input |-> <<>>, output |-> <<>>]]

\* ------------------------------------------------ android: the operations

Callbacks == {"input_added", "input_removed", "output_added", "output_removed"}

has_callbacks(conf) == \E cb \in Callbacks : conf[cb]

Configurations ==
    {c \in [Callbacks \cup {"notify_in_constructor"} -> BOOLEAN] :
        has_callbacks(c)}

\* A plausible slip: the constructor announces the ports but leaves the cache
\* empty.
Construct_without_cache(conf) ==
    /\ obs_state = "Uninitialized"
    /\ obs_state' = "Active"
    /\ configuration' = conf
    /\ calls' = calls
           \o (IF conf.notify_in_constructor /\ conf.input_added
               THEN Invocations("input_added", get_input_ports) ELSE <<>>)
           \o (IF conf.notify_in_constructor /\ conf.output_added
               THEN Invocations("output_added", get_output_ports) ELSE <<>>)
    /\ UNCHANGED <<cached_inputs, cached_outputs>>
    /\ UNCHANGED <<signals, last, envVars, macVars, idVars, gateVars, raceVars, apiVars, listVars>>

\* observer::observer with callbacks set, on a thread whose JNI environment,
\* context and MidiManager are available: the device callback is registered,
\* existing ports are announced if asked for, and the cache is filled.
Construct(conf) ==
    /\ obs_state = "Uninitialized"
    /\ obs_state' = "Active"
    /\ configuration' = conf
    /\ calls' = calls
           \o (IF conf.notify_in_constructor /\ conf.input_added
               THEN Invocations("input_added", get_input_ports) ELSE <<>>)
           \o (IF conf.notify_in_constructor /\ conf.output_added
               THEN Invocations("output_added", get_output_ports) ELSE <<>>)
    /\ cached_inputs' = get_input_ports
    /\ cached_outputs' = get_output_ports
    /\ UNCHANGED <<signals, last, envVars, macVars, idVars, gateVars, raceVars, apiVars, listVars>>

\* The backend gains a port; MidiManager posts onDeviceAdded to the looper
\* for the registered device callback.
Attach(dir, d) ==
    /\ obs_state = "Active"
    /\ Len(history) < MaxChanges
    /\ Len(signals) < MaxQueue
    /\ d \notin DevsOf(topology[dir])
    /\ topology' = [topology EXCEPT ![dir] = Append(@, [dev |-> d, ref |-> 0])]
    /\ history' = Append(history, <<"attach", dir, d>>)
    /\ signals' = Append(signals, "added")
    /\ UNCHANGED <<obs_state, configuration, cached_inputs, cached_outputs,
                   calls, last, macVars, idVars, gateVars, raceVars, apiVars, listVars>>

\* The backend loses a port; MidiManager posts onDeviceRemoved.
Detach(dir, i) ==
    /\ obs_state = "Active"
    /\ Len(history) < MaxChanges
    /\ Len(signals) < MaxQueue
    /\ i \in 1..Len(topology[dir])
    /\ topology' = [topology EXCEPT ![dir] = Remove(@, i)]
    /\ history' = Append(history, <<"detach", dir, topology[dir][i].dev>>)
    /\ signals' = Append(signals, "removed")
    /\ UNCHANGED <<obs_state, configuration, cached_inputs, cached_outputs,
                   calls, last, macVars, idVars, gateVars, raceVars, apiVars, listVars>>

\* get_input_ports / get_output_ports as the handlers call them: the list of
\* the backend, or the empty list when get_thread_env or get_context returns
\* null or the MIDI service is missing
enumerate(dir, reachable) == IF reachable THEN get_ports(dir) ELSE <<>>

\* observer::on_device_added, run by the looper for the oldest signal, with
\* the backend reachable or not. The inputs are enumerated and diffed and
\* their callbacks called, then the outputs: last.seen is the cache as the
\* input callbacks find it, last.after the cache when the handler returns,
\* last.fired the callbacks called in order.
on_device_added_on(reachable) ==
    /\ obs_state = "Active"
    /\ signals # <<>>
    /\ Head(signals) = "added"
    /\ LET din == diff_added(enumerate("input", reachable), cached_inputs)
           dout == diff_added(enumerate("output", reachable), cached_outputs)
           ain == IF configuration.input_added THEN din.result ELSE <<>>
           aout == IF configuration.output_added THEN dout.result ELSE <<>>
           cin == IF configuration.input_added THEN din.cache ELSE cached_inputs
           cout == IF configuration.output_added THEN dout.cache
                   ELSE cached_outputs
       IN  /\ cached_inputs' = cin
           /\ cached_outputs' = cout
           /\ calls' = calls \o Invocations("input_added", ain)
                             \o Invocations("output_added", aout)
           /\ last' = [kind |-> "added",
                       failed |-> ~reachable,
                       ran |-> [input |-> configuration.input_added,
                                output |-> configuration.output_added],
                       old |-> [input |-> cached_inputs,
                                output |-> cached_outputs],
                       new |-> [input |-> enumerate("input", reachable),
                                output |-> enumerate("output", reachable)],
                       added |-> [input |-> ain, output |-> aout],
                       removed |-> [input |-> <<>>, output |-> <<>>],
                       fired |-> Invocations("input_added", ain)
                                     \o Invocations("output_added", aout),
                       seen |-> [input |-> cin, output |-> cached_outputs],
                       after |-> [input |-> cin, output |-> cout]]
    /\ signals' = Tail(signals)
    /\ UNCHANGED <<obs_state, configuration, envVars, macVars, idVars, gateVars, raceVars, apiVars, listVars>>

on_device_added == on_device_added_on(TRUE)

\* observer::on_device_removed, run by the looper for the oldest signal, with
\* the backend reachable or not
on_device_removed_on(reachable) ==
    /\ obs_state = "Active"
    /\ signals # <<>>
    /\ Head(signals) = "removed"
    /\ LET din == diff_removed(enumerate("input", reachable), cached_inputs)
           dout == diff_removed(enumerate("output", reachable), cached_outputs)
           rin == IF configuration.input_removed THEN din.result ELSE <<>>
           rout == IF configuration.output_removed THEN dout.result ELSE <<>>
           cin == IF configuration.input_removed THEN din.cache ELSE cached_inputs
           cout == IF configuration.output_removed THEN dout.cache
                   ELSE cached_outputs
       IN  /\ cached_inputs' = cin
           /\ cached_outputs' = cout
           /\ calls' = calls \o Invocations("input_removed", rin)
                             \o Invocations("output_removed", rout)
           /\ last' = [kind |-> "removed",
                       failed |-> ~reachable,
                       ran |-> [input |-> configuration.input_removed,
                                output |-> configuration.output_removed],
                       old |-> [input |-> cached_inputs,
                                output |-> cached_outputs],
                       new |-> [input |-> enumerate("input", reachable),
                                output |-> enumerate("output", reachable)],
                       added |-> [input |-> <<>>, output |-> <<>>],
                       removed |-> [input |-> rin, output |-> rout],
                       fired |-> Invocations("input_removed", rin)
                                     \o Invocations("output_removed", rout),
                       seen |-> [input |-> cin, output |-> cached_outputs],
                       after |-> [input |-> cin, output |-> cout]]
    /\ signals' = Tail(signals)
    /\ UNCHANGED <<obs_state, configuration, envVars, macVars, idVars, gateVars, raceVars, apiVars, listVars>>

on_device_removed == on_device_removed_on(TRUE)

\* The topologies an observer may be constructed in.
InitialTopologies ==
    {[input |-> <<>>, output |-> <<>>],
     [input |-> <<[dev |-> 1, ref |-> 0]>>, output |-> <<>>],
     [input |-> <<[dev |-> 1, ref |-> 0], [dev |-> 2, ref |-> 0]>>,
      output |-> <<[dev |-> 1, ref |-> 0]>>]}

NoConfiguration ==
    [c \in Callbacks \cup {"notify_in_constructor"} |-> FALSE]

InitObserver ==
    /\ obs_state = "Uninitialized"
    /\ configuration = NoConfiguration
    /\ cached_inputs = <<>>
    /\ cached_outputs = <<>>
    /\ signals = <<>>
    /\ calls = <<>>
    /\ last = NoLast

\* ------------------------------------------------ 64-bit unsigned arithmetic

\* a xor b on n-bit values
RECURSIVE BitXor(_, _, _)
BitXor(a, b, n) ==
    IF n = 0 THEN 0
    ELSE (((a % 2) + (b % 2)) % 2) + 2 * BitXor(a \div 2, b \div 2, n - 1)

U64Xor(x, y) ==
    [i \in 1..8 |-> IF y[i] = 0 THEN x[i] ELSE BitXor(x[i], y[i], 8)]

\* x * y modulo 2^64, byte by byte from the least significant
RECURSIVE U64MulFrom(_, _, _, _)
U64MulFrom(x, y, k, carry) ==
    IF k > 8 THEN <<>>
    ELSE LET t == carry + SeqSum([i \in 1..k |-> x[i] * y[k + 1 - i]])
         IN  <<(t % 256)>> \o U64MulFrom(x, y, k + 1, t \div 256)

U64Mul(x, y) == U64MulFrom(x, y, 1, 0)

\* static_cast<uint64_t>(c) of a plain char holding byte c: a signed char
\* above 0x7f is negative and sign-extends.
U64FromChar(c, signed) ==
    IF signed /\ c >= 128
    THEN <<c, 255, 255, 255, 255, 255, 255, 255>>
    ELSE <<c, 0, 0, 0, 0, 0, 0, 0>>

\* 14695981039346656037 = 0xcbf29ce484222325
FNV_OFFSET_BASIS == <<37, 35, 34, 132, 228, 156, 242, 203>>

\* 1099511628211 = 0x00000100000001b3
FNV_PRIME == <<179, 1, 0, 0, 0, 1, 0, 0>>

RECURSIVE fnv1a_fold(_, _, _)
fnv1a_fold(hash, str, signed) ==
    IF str = <<>> THEN hash
    ELSE IF Len(str) = 1
    THEN U64Mul(U64Xor(hash, U64FromChar(Head(str), signed)), FNV_PRIME)
    ELSE \* the bytes of the first half in order, then those of the second
         LET m == Len(str) \div 2
             first == fnv1a_fold(hash, SubSeq(str, 1, m), signed)
         IN  IF Len(first) = 8
             THEN fnv1a_fold(first, SubSeq(str, m + 1, Len(str)), signed)
             ELSE first

\* fnv1a_hash of libremidi_flutter.cpp, on a build whose plain char is
\* signed or not
fnv1a_hash(str, signed) == fnv1a_fold(FNV_OFFSET_BASIS, str, signed)

\* -------------------------------------------------- the wrapper: get / count

LRM_OK == 0
LRM_ERR_INVALID == -1
LRM_ERR_NOT_FOUND == -2

LRM_EVENT_INPUT_ADDED == 0
LRM_EVENT_INPUT_REMOVED == 1
LRM_EVENT_OUTPUT_ADDED == 2
LRM_EVENT_OUTPUT_REMOVED == 3

\* sizeof the char arrays of LrmPortInfo
NAME_SIZE == 256
SERIAL_SIZE == 128

Min(a, b) == IF a <= b THEN a ELSE b

\* the bytes of a std::string up to its first NUL: what c_str() shows strncpy
CStr(str) ==
    LET zeros == {i \in 1..Len(str) : str[i] = 0}
    IN  IF zeros = {} THEN str
        ELSE SubSeq(str, 1, (CHOOSE i \in zeros : \A j \in zeros : i <= j) - 1)

\* safe_strcpy: at most dest_size - 1 bytes, then the terminator
safe_strcpy(dest_size, src) ==
    SubSeq(CStr(src), 1, Min(Len(CStr(src)), dest_size - 1))

\* port_key of libremidi_flutter.cpp
lrm_port_key(port) ==
    port.port_name \o <<124>> \o port.manufacturer \o <<124>> \o port.product
        \o <<124>> \o port.serial

\* A plausible slip: the native handle is hashed into the stable id.
stable_id_with_handle(port) ==
    fnv1a_hash(<<port.port>> \o lrm_port_key(port), char_signed)

\* info->stable_id = fnv1a_hash(port_key(port))
stable_id_of(port) == fnv1a_hash(lrm_port_key(port), char_signed)

\* fill_port_info: the LrmPortInfo record written for a port
fill_port_info(port, index, is_input) ==
    [stable_id |-> stable_id_of(port),
     port_id |-> port.port,
     client_handle |-> port.client,
     index |-> index,
     display_name |-> safe_strcpy(NAME_SIZE, port.display_name),
     port_name |-> safe_strcpy(NAME_SIZE, port.port_name),
     device_name |-> safe_strcpy(NAME_SIZE, port.device_name),
     manufacturer |-> safe_strcpy(NAME_SIZE, port.manufacturer),
     product |-> safe_strcpy(NAME_SIZE, port.product),
     serial |-> safe_strcpy(SERIAL_SIZE, port.serial),
     transport_type |-> port.type % 256,
     is_input |-> is_input,
     is_virtual |-> port.type \in {LRM_TRANSPORT_SOFTWARE, LRM_TRANSPORT_LOOPBACK}]

NoInfo == [index |-> -1]

\* strncpy(dest, src.c_str(), n): the n bytes written from dest on, the first
\* at offset 1; what is left after the string is filled with zero bytes
strncpy(src, n) ==
    [i \in 1..n |-> IF i <= Len(CStr(src)) THEN src[i] ELSE 0]

\* A plausible slip: the whole capacity is copied and the terminator is put
\* behind it.
safe_strcpy_writes_full(dest_size, src) ==
    strncpy(src, dest_size) @@ ((dest_size + 1) :> 0)

\* safe_strcpy as writes to memory: the bytes written by offset from dest
safe_strcpy_writes(dest_size, src) ==
    strncpy(src, dest_size - 1) @@ (dest_size :> 0)

\* sizeof of the string fields of LrmPortInfo
StringFields ==
    [display_name |-> NAME_SIZE, port_name |-> NAME_SIZE,
     device_name |-> NAME_SIZE, manufacturer |-> NAME_SIZE,
     product |-> NAME_SIZE, serial |-> SERIAL_SIZE]

\* the six safe_strcpy calls of fill_port_info
fill_port_info_writes(port) ==
    [f \in DOMAIN StringFields |-> safe_strcpy_writes(StringFields[f], port[f])]

\* lrm_observer_get_input_count / lrm_observer_get_output_count on the
\* caller's handle (null before creation)
lrm_observer_get_input_count ==
    IF lrm_state = "null" THEN 0 ELSE Len(input_ports)

lrm_observer_get_output_count ==
    IF lrm_state = "null" THEN 0 ELSE Len(output_ports)

\* A plausible slip: the index is taken as a position counted from one.
lrm_observer_get_one_based(ports, is_input, index) ==
    IF lrm_state = "null" THEN [rc |-> LRM_ERR_INVALID, info |-> NoInfo]
    ELSE IF index < 1 \/ index > Len(ports)
    THEN [rc |-> LRM_ERR_NOT_FOUND, info |-> NoInfo]
    ELSE [rc |-> LRM_OK, info |-> fill_port_info(ports[index], index, is_input)]

\* lrm_observer_get_input / lrm_observer_get_output with a non-null info
lrm_observer_get(ports, is_input, index) ==
    IF lrm_state = "null" THEN [rc |-> LRM_ERR_INVALID, info |-> NoInfo]
    ELSE IF index < 0 \/ index >= Len(ports)
    THEN [rc |-> LRM_ERR_NOT_FOUND, info |-> NoInfo]
    ELSE [rc |-> LRM_OK, info |-> fill_port_info(ports[index + 1], index, is_input)]

lrm_observer_get_input(index) == lrm_observer_get(input_ports, TRUE, index)

lrm_observer_get_output(index) == lrm_observer_get(output_ports, FALSE, index)

\* ------------------------------------------------ the wrapper: the backend

\* The libremidi port the CoreMIDI observer returns for an endpoint: port.port
\* is the endpoint reference, which a re-plugged device does not keep.
MacPort(e) ==
    [port |-> e.ref,
     client |-> 1,
     port_name |-> DevFields[e.dev].port_name,
     device_name |-> IF DevFields[e.dev].product = <<>>
                     THEN DevFields[e.dev].port_name ELSE DevFields[e.dev].product,
     display_name |-> DevFields[e.dev].port_name,
     manufacturer |-> DevFields[e.dev].manufacturer,
     product |-> DevFields[e.dev].product,
     serial |-> DevFields[e.dev].serial,
     type |-> IF DevFields[e.dev].android_type = 2
              THEN LRM_TRANSPORT_SOFTWARE ELSE LRM_TRANSPORT_HARDWARE]

\* observer->get_input_ports() / get_output_ports()
mac_get_ports(dir) ==
    [i \in 1..Len(topology[dir]) |-> MacPort(topology[dir][i])]

ChildType(dir) == IF dir = "input" THEN "Source" ELSE "Destination"

\* What CoreMIDI posts to the client's block for one change of the setup:
\* the object notification, the setup-changed notification in its place, or
\* both.
Posted(msg, dir) ==
    {<<[messageID |-> msg, childType |-> ChildType(dir)]>>,
     <<[messageID |-> "SetupChanged", childType |-> "None"]>>,
     <<[messageID |-> msg, childType |-> ChildType(dir)],
       [messageID |-> "SetupChanged", childType |-> "None"]>>}

NoMacLast ==
    [messageID |-> "none",
     childType |-> "None",
     old |-> [input |-> <<>>, output |-> <<>>],
     new |-> [input |-> <<>>, output |-> <<>>],
     fired |-> <<>>]

\* ---------------------------------------------- the wrapper: the operations

\* lrm_observer_new_with_callbacks(callback, context) with a callback;
\* MIDIClientCreateWithBlock succeeds or not, the observer is created and
\* refreshed either way.
lrm_observer_new_with_callbacks(client_ok) ==
    /\ lrm_state = "null"
    /\ lrm_state' = "live"
    /\ hotplug_callback' = TRUE
    /\ midiClient' = IF client_ok THEN 1 ELSE 0
    /\ input_ports' = mac_get_ports("input")
    /\ output_ports' = mac_get_ports("output")
    /\ UNCHANGED <<char_signed, notifications, hotplug_calls, mac_last,
                   free_calls, fault, envVars, obsVars, idVars,
                   gateVars, raceVars, apiVars, listVars>>

\* A plausible slip: the constructor leaves the first enumeration to the
\* first refresh.
lrm_observer_new_without_refresh ==
    /\ lrm_state = "null"
    /\ lrm_state' = "live"
    /\ hotplug_callback' = FALSE
    /\ midiClient' = 0
    /\ UNCHANGED <<input_ports, output_ports>>
    /\ UNCHANGED <<char_signed, notifications, hotplug_calls, mac_last,
                   free_calls, fault, envVars, obsVars, idVars,
                   gateVars, raceVars, apiVars, listVars>>

\* lrm_observer_new(): no callback, no MIDI client of its own
lrm_observer_new ==
    /\ lrm_state = "null"
    /\ lrm_state' = "live"
    /\ hotplug_callback' = FALSE
    /\ midiClient' = 0
    /\ input_ports' = mac_get_ports("input")
    /\ output_ports' = mac_get_ports("output")
    /\ UNCHANGED <<char_signed, notifications, hotplug_calls, mac_last,
                   free_calls, fault, envVars, obsVars, idVars,
                   gateVars, raceVars, apiVars, listVars>>

\* An endpoint appears; a live client is notified.
MacAttach(dir, d, post) ==
    /\ lrm_state = "live"
    /\ Len(history) < MaxMacChanges
    /\ d \notin DevsOf(topology[dir])
    /\ topology' = [topology EXCEPT
                       ![dir] = Append(@, [dev |-> d, ref |-> Len(history) + 1])]
    /\ history' = Append(history, <<"attach", dir, d>>)
    /\ IF midiClient # 0
       THEN /\ Len(notifications) + Len(post) <= MaxQueue
            /\ notifications' = notifications \o post
       ELSE /\ post = <<[messageID |-> "SetupChanged", childType |-> "None"]>>
            /\ UNCHANGED notifications
    /\ UNCHANGED <<char_signed, lrm_state, input_ports, output_ports,
                   hotplug_callback, midiClient, hotplug_calls, mac_last,
                   free_calls, fault, obsVars, idVars,
                   gateVars, raceVars, apiVars, listVars>>

\* A second unit of a device that is present is plugged in: its endpoint has
\* the name, manufacturer, product and serial of the first and a reference
\* of its own.
MacAttachTwin(dir, d, post) ==
    /\ lrm_state = "live"
    /\ Len(history) < MaxMacChanges
    /\ Count([i \in 1..Len(topology[dir]) |-> topology[dir][i].dev], d) = 1
    /\ topology' = [topology EXCEPT
                       ![dir] = Append(@, [dev |-> d, ref |-> Len(history) + 1])]
    /\ history' = Append(history, <<"attach", dir, d>>)
    /\ IF midiClient # 0
       THEN /\ Len(notifications) + Len(post) <= MaxQueue
            /\ notifications' = notifications \o post
       ELSE /\ post = <<[messageID |-> "SetupChanged", childType |-> "None"]>>
            /\ UNCHANGED notifications
    /\ UNCHANGED <<char_signed, lrm_state, input_ports, output_ports,
                   hotplug_callback, midiClient, hotplug_calls, mac_last,
                   free_calls, fault, obsVars, idVars,
                   gateVars, raceVars, apiVars, listVars>>

\* An endpoint disappears; a live client is notified.
MacDetach(dir, i, post) ==
    /\ lrm_state = "live"
    /\ Len(history) < MaxMacChanges
    /\ i \in 1..Len(topology[dir])
    /\ topology' = [topology EXCEPT ![dir] = Remove(@, i)]
    /\ history' = Append(history, <<"detach", dir, topology[dir][i].dev>>)
    /\ IF midiClient # 0
       THEN /\ Len(notifications) + Len(post) <= MaxQueue
            /\ notifications' = notifications \o post
       ELSE /\ post = <<[messageID |-> "SetupChanged", childType |-> "None"]>>
            /\ UNCHANGED notifications
    /\ UNCHANGED <<char_signed, lrm_state, input_ports, output_ports,
                   hotplug_callback, midiClient, hotplug_calls, mac_last,
                   free_calls, fault, obsVars, idVars,
                   gateVars, raceVars, apiVars, listVars>>

\* A notification that is about no endpoint: a property change, or an added
\* or removed device or entity.
MacOtherNotification(n) ==
    /\ lrm_state = "live"
    /\ midiClient # 0
    /\ Len(notifications) < MaxQueue
    /\ notifications' = Append(notifications, n)
    /\ UNCHANGED <<char_signed, lrm_state, input_ports, output_ports,
                   hotplug_callback, midiClient, hotplug_calls, mac_last,
                   free_calls, fault, envVars, obsVars, idVars,
                   gateVars, raceVars, apiVars, listVars>>

OtherNotifications ==
    {[messageID |-> "PropertyChanged", childType |-> "None"],
     [messageID |-> "ObjectAdded", childType |-> "Device"],
     [messageID |-> "ObjectRemoved", childType |-> "Entity"]}

\* the events handleMIDINotification passes to notifyHotplug, in order
EventsFor(n) ==
    CASE n.messageID = "ObjectAdded" /\ n.childType = "Source"
             -> <<LRM_EVENT_INPUT_ADDED>>
      [] n.messageID = "ObjectAdded" /\ n.childType = "Destination"
             -> <<LRM_EVENT_OUTPUT_ADDED>>
      [] n.messageID = "ObjectRemoved" /\ n.childType = "Source"
             -> <<LRM_EVENT_INPUT_REMOVED>>
      [] n.messageID = "ObjectRemoved" /\ n.childType = "Destination"
             -> <<LRM_EVENT_OUTPUT_REMOVED>>
      [] n.messageID = "SetupChanged"
             -> <<LRM_EVENT_INPUT_ADDED, LRM_EVENT_OUTPUT_ADDED>>
      [] OTHER -> <<>>

\* whether handleMIDINotification calls refreshInternal for the message
Refreshes(n) == n.messageID \in {"ObjectAdded", "ObjectRemoved", "SetupChanged"}

\* notifyHotplug: the callback is called if it is set
notifyHotplug(events) == IF hotplug_callback THEN events ELSE <<>>

\* handleMIDINotification on the oldest waiting notification
handleMIDINotification ==
    /\ lrm_state = "live"
    /\ notifications # <<>>
    /\ LET n == Head(notifications)
           new_in == IF Refreshes(n) THEN mac_get_ports("input") ELSE input_ports
           new_out == IF Refreshes(n) THEN mac_get_ports("output") ELSE output_ports
       IN  /\ input_ports' = new_in
           /\ output_ports' = new_out
           /\ hotplug_calls' = hotplug_calls \o notifyHotplug(EventsFor(n))
           /\ mac_last' = [messageID |-> n.messageID,
                           childType |-> n.childType,
                           old |-> [input |-> input_ports, output |-> output_ports],
                           new |-> [input |-> new_in, output |-> new_out],
                           fired |-> notifyHotplug(EventsFor(n))]
    /\ notifications' = Tail(notifications)
    /\ UNCHANGED <<char_signed, lrm_state, hotplug_callback, midiClient,
                   free_calls, fault, envVars, obsVars, idVars,
                   gateVars, raceVars, apiVars, listVars>>

\* A plausible slip: only the inputs are enumerated again.
lrm_observer_refresh_inputs_only ==
    /\ lrm_state = "live"
    /\ input_ports' = mac_get_ports("input")
    /\ UNCHANGED output_ports
    /\ mac_last' = [messageID |-> "refresh",
                    childType |-> "None",
                    old |-> [input |-> input_ports, output |-> output_ports],
                    new |-> [input |-> mac_get_ports("input"),
                             output |-> output_ports],
                    fired |-> <<>>]
    /\ UNCHANGED <<char_signed, lrm_state, hotplug_callback, midiClient,
                   notifications, hotplug_calls,
                   free_calls, fault, envVars, obsVars, idVars,
                   gateVars, raceVars, apiVars, listVars>>

\* lrm_observer_refresh on a live handle: refreshInternal, and no call of
\* notifyHotplug
lrm_observer_refresh ==
    /\ lrm_state = "live"
    /\ input_ports' = mac_get_ports("input")
    /\ output_ports' = mac_get_ports("output")
    /\ mac_last' = [messageID |-> "refresh",
                    childType |-> "None",
                    old |-> [input |-> input_ports, output |-> output_ports],
                    new |-> [input |-> mac_get_ports("input"),
                             output |-> mac_get_ports("output")],
                    fired |-> <<>>]
    /\ UNCHANGED <<char_signed, lrm_state, hotplug_callback, midiClient,
                   notifications, hotplug_calls,
                   free_calls, fault, envVars, obsVars, idVars,
                   gateVars, raceVars, apiVars, listVars>>

\* lrm_observer_free: delete observer. On a live handle the destructor clears
\* the callback and disposes of the MIDI client, which ends its
\* notifications. On a handle already freed the delete is a second delete of
\* the same object: undefined behaviour, whose outcome is the allocator's
\* abort, a silently corrupted heap, or nothing visible.
lrm_observer_free(outcome) ==
    /\ lrm_state \in {"live", "freed"}
    /\ free_calls < MaxFree
    /\ free_calls' = free_calls + 1
    /\ IF lrm_state = "live"
       THEN /\ outcome = "none"
            /\ lrm_state' = "freed"
            /\ hotplug_callback' = FALSE
            /\ midiClient' = 0
            /\ notifications' = <<>>
            /\ UNCHANGED fault
       ELSE /\ fault' = outcome
            /\ UNCHANGED <<lrm_state, hotplug_callback, midiClient, notifications>>
    /\ UNCHANGED <<char_signed, input_ports, output_ports, hotplug_calls,
                   mac_last, envVars, obsVars, idVars,
                   gateVars, raceVars, apiVars, listVars>>

FreeOutcomes == {"none", "abort", "heap_corrupted"}

InitMac ==
    /\ lrm_state = "null"
    /\ input_ports = <<>>
    /\ output_ports = <<>>
    /\ hotplug_callback = FALSE
    /\ midiClient = 0
    /\ notifications = <<>>
    /\ hotplug_calls = <<>>
    /\ mac_last = NoMacLast
    /\ free_calls = 0
    /\ fault = "none"

\* ------------------------------------------------ identity of returned ports

\* native handles (port.port, port.client) a backend may give a port
MaxHandle == 2

\* the libremidi ports fill_port_info may be given
IdPorts ==
    {[MacPort([dev |-> d, ref |-> r]) EXCEPT !.client = c] :
        d \in Devs, r \in 1..MaxHandle, c \in 1..MaxHandle}

IdArgs == [port : IdPorts, index : 0..1, is_input : BOOLEAN]

\* bytes by which a string of a port may exceed the field it is copied to
MaxOver == 1

Fill(n, c) == [i \in 1..n |-> c]

\* strings around the capacity of a field; the last differs from the one of
\* dest_size - 1 bytes only behind what the field can hold
LongStrings(dest_size, c) ==
    {Fill(n, c) : n \in (dest_size - 2)..(dest_size + MaxOver)}
        \cup {Fill(dest_size - 1, c) \o <<c + 1>>}

\* ports whose name and serial number are about as long as their fields
LongPorts ==
    {[MacPort([dev |-> 2, ref |-> 1]) EXCEPT
          !.port_name = n, !.display_name = n, !.serial = x] :
        n \in LongStrings(NAME_SIZE, 65),
        x \in {<<>>} \cup LongStrings(SERIAL_SIZE, 49)}

LongArgs == [port : LongPorts, index : {0}, is_input : {TRUE}]

\* the arguments of two calls, for two ports with one serial number
LongPairs ==
    {p \in [1..2 -> LongArgs] : p[1].port.serial = p[2].port.serial}

\* two calls of lrm_observer_get_input / lrm_observer_get_output reach
\* fill_port_info with the arguments drawn
FillPortInfo ==
    /\ fill_out = <<>>
    /\ fill_out' =
           [i \in 1..2 |->
               fill_port_info(fill_in[i].port, fill_in[i].index, fill_in[i].is_input)]
    /\ fill_mem' = [i \in 1..2 |-> fill_port_info_writes(fill_in[i].port)]
    /\ UNCHANGED <<fill_in, char_signed, lrm_state, input_ports, output_ports,
                   hotplug_callback, midiClient, notifications, hotplug_calls,
                   mac_last, free_calls, fault, envVars, obsVars, gateVars, raceVars, apiVars, listVars>>

InitId ==
    /\ fill_in = <<>>
    /\ fill_out = <<>>
    /\ fill_mem = <<>>

\* ------------------------------------------------------ the hotplug gate

\* the observers of one process, by address; 0 is the null pointer
Observers == {1, 2}

\* set_hotplug_observer, one store at a time
set_hotplug_observer_1(o) == g_active_hotplug_observer' = o

set_hotplug_observer_2 == g_on_device_added' = TRUE

set_hotplug_observer_3 == g_on_device_removed' = TRUE

\* clear_hotplug_observer, one store at a time
clear_hotplug_observer_1 == g_active_hotplug_observer' = 0

clear_hotplug_observer_2 == g_on_device_added' = FALSE

clear_hotplug_observer_3 == g_on_device_removed' = FALSE

AppIdle == [op |-> "idle", o |-> 0, env |-> TRUE]

JniIdle ==
    [step |-> "idle", ptr |-> 0, kind |-> "none", entry_state |-> "none",
     entry_superseded |-> FALSE]

NoCall ==
    [ptr |-> 0, kind |-> "none", obs_state |-> "none", unregistered |-> FALSE,
     entry_state |-> "none", entry_superseded |-> FALSE, active |-> 0]

NoDrop ==
    [ptr |-> 0, kind |-> "none", active |-> 0, handler |-> FALSE,
     entry_superseded |-> FALSE]

Running == gate_fault = "none"

\* observer::observer (has_callbacks), up to the registration of the device
\* callback: without a JNI environment nothing is registered; with one, the
\* MidiManager reference is kept and register_device_callback either
\* registers a Java callback holding this pointer or returns null.
ConstructBegin(o, env_ok, reg_ok) ==
    /\ Running
    /\ app_pc.op = "idle"
    /\ ob[o].state = "none"
    /\ ob' = [ob EXCEPT ![o] = [state |-> "constructing",
                                has_callbacks |-> TRUE,
                                midi_manager |-> env_ok,
                                device_callback |-> env_ok /\ reg_ok]]
    /\ java_callback' =
           [java_callback EXCEPT
               ![o] = IF env_ok /\ reg_ok THEN "registered" ELSE @]
    /\ app_pc' = [op |-> IF env_ok THEN "ctor_set_observer" ELSE "ctor_cache",
                  o |-> o, env |-> env_ok]
    /\ UNCHANGED <<g_active_hotplug_observer, g_on_device_added,
                   g_on_device_removed, unregistered, jni_pc, gate_call,
                   gate_fault, envVars, obsVars, macVars, idVars,
                   raceVars, apiVars, listVars, superseded, gate_drop>>

\* observer::observer without callbacks: has_callbacks() is false and the
\* constructor touches neither the MidiManager nor the gate.
ConstructPlain(o) ==
    /\ Running
    /\ app_pc.op = "idle"
    /\ ob[o].state = "none"
    /\ ob' = [ob EXCEPT ![o] = [state |-> "alive",
                                has_callbacks |-> FALSE,
                                midi_manager |-> FALSE,
                                device_callback |-> FALSE]]
    /\ UNCHANGED <<g_active_hotplug_observer, g_on_device_added,
                   g_on_device_removed, java_callback, unregistered, app_pc,
                   jni_pc, gate_call, gate_fault, envVars, obsVars, macVars,
                   idVars, raceVars, apiVars, listVars, superseded, gate_drop>>

\* set_hotplug_observer(this, ...): g_active_hotplug_observer = observer
ConstructSetObserver ==
    /\ Running
    /\ app_pc.op = "ctor_set_observer"
    /\ set_hotplug_observer_1(app_pc.o)
    /\ superseded' = superseded \cup ({g_active_hotplug_observer} \ {0, app_pc.o})
    /\ app_pc' = [app_pc EXCEPT !.op = "ctor_set_added"]
    /\ UNCHANGED <<g_on_device_added, g_on_device_removed, ob, java_callback,
                   unregistered, jni_pc, gate_call, gate_fault, envVars,
                   obsVars, macVars, idVars,
                   raceVars, apiVars, listVars, gate_drop>>

\* g_on_device_added = on_added
ConstructSetAdded ==
    /\ Running
    /\ app_pc.op = "ctor_set_added"
    /\ set_hotplug_observer_2
    /\ app_pc' = [app_pc EXCEPT !.op = "ctor_set_removed"]
    /\ UNCHANGED <<g_active_hotplug_observer, g_on_device_removed, ob,
                   java_callback, unregistered, jni_pc, gate_call, gate_fault,
                   envVars, obsVars, macVars, idVars,
                   raceVars, apiVars, listVars, superseded, gate_drop>>

\* g_on_device_removed = on_removed
ConstructSetRemoved ==
    /\ Running
    /\ app_pc.op = "ctor_set_removed"
    /\ set_hotplug_observer_3
    /\ app_pc' = [app_pc EXCEPT !.op = "ctor_cache"]
    /\ UNCHANGED <<g_active_hotplug_observer, g_on_device_added, ob,
                   java_callback, unregistered, jni_pc, gate_call, gate_fault,
                   envVars, obsVars, macVars, idVars,
                   raceVars, apiVars, listVars, superseded, gate_drop>>

\* the rest of the constructor (the notifications of existing ports, the
\* port cache); the constructor returns
ConstructEnd ==
    /\ Running
    /\ app_pc.op = "ctor_cache"
    /\ ob' = [ob EXCEPT ![app_pc.o].state = "alive"]
    /\ app_pc' = AppIdle
    /\ UNCHANGED <<g_active_hotplug_observer, g_on_device_added,
                   g_on_device_removed, java_callback, unregistered, jni_pc,
                   gate_call, gate_fault, envVars, obsVars, macVars, idVars,
                   raceVars, apiVars, listVars, superseded, gate_drop>>

\* A plausible slip: the destructor clears the gate whenever it has a JNI
\* environment, whether or not this observer registered a device callback.
DestroyBegin_always_clears(o, env_ok) ==
    /\ Running
    /\ app_pc.op = "idle"
    /\ ob[o].state = "alive"
    /\ ob' = [ob EXCEPT ![o].state = "destroying"]
    /\ app_pc' = [op |-> IF ~env_ok THEN "dtor_return"
                         ELSE "dtor_clear_observer",
                  o |-> o, env |-> env_ok]
    /\ UNCHANGED <<g_active_hotplug_observer, g_on_device_added,
                   g_on_device_removed, java_callback, unregistered, jni_pc,
                   gate_call, gate_fault, envVars, obsVars, macVars, idVars,
                   raceVars, apiVars, listVars, superseded, gate_drop>>

\* observer::~observer begins: env = context::get_thread_env(). Without an
\* environment the destructor does nothing more; with one, the gate is
\* cleared if midi_manager and device_callback are both set.
DestroyBegin(o, env_ok) ==
    /\ Running
    /\ app_pc.op = "idle"
    /\ ob[o].state = "alive"
    /\ ob' = [ob EXCEPT ![o].state = "destroying"]
    /\ app_pc' = [op |-> IF ~env_ok THEN "dtor_return"
                         ELSE IF ob[o].midi_manager /\ ob[o].device_callback
                         THEN "dtor_clear_observer"
                         ELSE "dtor_release",
                  o |-> o, env |-> env_ok]
    /\ UNCHANGED <<g_active_hotplug_observer, g_on_device_added,
                   g_on_device_removed, java_callback, unregistered, jni_pc,
                   gate_call, gate_fault, envVars, obsVars, macVars, idVars,
                   raceVars, apiVars, listVars, superseded, gate_drop>>

\* clear_hotplug_observer(): g_active_hotplug_observer = nullptr
DestroyClearObserver ==
    /\ Running
    /\ app_pc.op = "dtor_clear_observer"
    /\ clear_hotplug_observer_1
    /\ app_pc' = [app_pc EXCEPT !.op = "dtor_clear_added"]
    /\ UNCHANGED <<g_on_device_added, g_on_device_removed, ob, java_callback,
                   unregistered, jni_pc, gate_call, gate_fault, envVars,
                   obsVars, macVars, idVars,
                   raceVars, apiVars, listVars, superseded, gate_drop>>

\* g_on_device_added = nullptr
DestroyClearAdded ==
    /\ Running
    /\ app_pc.op = "dtor_clear_added"
    /\ clear_hotplug_observer_2
    /\ app_pc' = [app_pc EXCEPT !.op = "dtor_clear_removed"]
    /\ UNCHANGED <<g_active_hotplug_observer, g_on_device_removed, ob,
                   java_callback, unregistered, jni_pc, gate_call, gate_fault,
                   envVars, obsVars, macVars, idVars,
                   raceVars, apiVars, listVars, superseded, gate_drop>>

\* g_on_device_removed = nullptr; clear_hotplug_observer returns
DestroyClearRemoved ==
    /\ Running
    /\ app_pc.op = "dtor_clear_removed"
    /\ clear_hotplug_observer_3
    /\ unregistered' = [unregistered EXCEPT ![app_pc.o] = TRUE]
    /\ app_pc' = [app_pc EXCEPT !.op = "dtor_unregister"]
    /\ UNCHANGED <<g_active_hotplug_observer, g_on_device_added, ob,
                   java_callback, jni_pc, gate_call, gate_fault, envVars,
                   obsVars, macVars, idVars,
                   raceVars, apiVars, listVars, superseded, gate_drop>>

\* context::unregister_device_callback: the Java callback is invalidated and
\* unregistered from the MidiManager; device_callback = nullptr
DestroyUnregister ==
    /\ Running
    /\ app_pc.op = "dtor_unregister"
    /\ java_callback' = [java_callback EXCEPT ![app_pc.o] = "unregistered"]
    /\ ob' = [ob EXCEPT ![app_pc.o].device_callback = FALSE]
    /\ app_pc' = [app_pc EXCEPT !.op = "dtor_release"]
    /\ UNCHANGED <<g_active_hotplug_observer, g_on_device_added,
                   g_on_device_removed, unregistered, jni_pc, gate_call,
                   gate_fault, envVars, obsVars, macVars, idVars,
                   raceVars, apiVars, listVars, superseded, gate_drop>>

\* DeleteGlobalRef(midi_manager); midi_manager = nullptr; cleanup_devices
DestroyRelease ==
    /\ Running
    /\ app_pc.op = "dtor_release"
    /\ ob' = [ob EXCEPT ![app_pc.o].midi_manager = FALSE]
    /\ app_pc' = [app_pc EXCEPT !.op = "dtor_return"]
    /\ UNCHANGED <<g_active_hotplug_observer, g_on_device_added,
                   g_on_device_removed, java_callback, unregistered, jni_pc,
                   gate_call, gate_fault, envVars, obsVars, macVars, idVars,
                   raceVars, apiVars, listVars, superseded, gate_drop>>

\* the destructor returns and the observer's memory is released
DestroyEnd ==
    /\ Running
    /\ app_pc.op = "dtor_return"
    /\ ob' = [ob EXCEPT ![app_pc.o].state = "freed"]
    /\ app_pc' = AppIdle
    /\ UNCHANGED <<g_active_hotplug_observer, g_on_device_added,
                   g_on_device_removed, java_callback, unregistered, jni_pc,
                   gate_call, gate_fault, envVars, obsVars, macVars, idVars,
                   raceVars, apiVars, listVars, superseded, gate_drop>>

\* the handler pointer the gate holds for a kind of signal
GateHandler(kind) ==
    IF kind = "added" THEN g_on_device_added ELSE g_on_device_removed

\* A registered Java callback calls onDeviceAddedNative / onDeviceRemovedNative
\* with the observer pointer it was created with.
SignalEnter(o, kind) ==
    /\ Running
    /\ jni_pc.step = "idle"
    /\ java_callback[o] = "registered"
    /\ jni_pc' = [step |-> "entered", ptr |-> o, kind |-> kind,
                  entry_state |-> ob[o].state,
                  entry_superseded |-> o \in superseded]
    /\ UNCHANGED <<g_active_hotplug_observer, g_on_device_added,
                   g_on_device_removed, ob, java_callback, unregistered,
                   app_pc, gate_call, gate_fault, envVars, obsVars, macVars,
                   idVars,
                   raceVars, apiVars, listVars, superseded, gate_drop>>

\* observer_ptr != 0 && g_on_device_added: the first load of the handler
SignalCheckHandler ==
    /\ Running
    /\ jni_pc.step = "entered"
    /\ jni_pc' = IF jni_pc.ptr # 0 /\ GateHandler(jni_pc.kind)
                 THEN [jni_pc EXCEPT !.step = "handler_checked"]
                 ELSE JniIdle
    /\ gate_drop' = IF jni_pc.ptr # 0 /\ GateHandler(jni_pc.kind)
                    THEN gate_drop
                    ELSE [ptr |-> jni_pc.ptr, kind |-> jni_pc.kind,
                          active |-> g_active_hotplug_observer,
                          handler |-> GateHandler(jni_pc.kind),
                          entry_superseded |-> jni_pc.entry_superseded]
    /\ UNCHANGED <<g_active_hotplug_observer, g_on_device_added,
                   g_on_device_removed, ob, java_callback, unregistered,
                   app_pc, gate_call, gate_fault, envVars, obsVars, macVars,
                   idVars,
                   raceVars, apiVars, listVars, superseded>>

\* A plausible slip: the gate tests that an observer is registered, not that
\* it is the one the signal is addressed to.
SignalCheckAnyObserver ==
    /\ Running
    /\ jni_pc.step = "handler_checked"
    /\ jni_pc' = IF g_active_hotplug_observer # 0
                 THEN [jni_pc EXCEPT !.step = "passed"]
                 ELSE JniIdle
    /\ gate_drop' = IF g_active_hotplug_observer # 0
                    THEN gate_drop
                    ELSE [ptr |-> jni_pc.ptr, kind |-> jni_pc.kind,
                          active |-> g_active_hotplug_observer,
                          handler |-> GateHandler(jni_pc.kind),
                          entry_superseded |-> jni_pc.entry_superseded]
    /\ UNCHANGED <<g_active_hotplug_observer, g_on_device_added,
                   g_on_device_removed, ob, java_callback, unregistered,
                   app_pc, gate_call, gate_fault, envVars, obsVars, macVars,
                   idVars, raceVars, apiVars, listVars, superseded>>

\* && (void*)observer_ptr == g_active_hotplug_observer
SignalCheckObserver ==
    /\ Running
    /\ jni_pc.step = "handler_checked"
    /\ jni_pc' = IF jni_pc.ptr = g_active_hotplug_observer
                 THEN [jni_pc EXCEPT !.step = "passed"]
                 ELSE JniIdle
    /\ gate_drop' = IF jni_pc.ptr = g_active_hotplug_observer
                    THEN gate_drop
                    ELSE [ptr |-> jni_pc.ptr, kind |-> jni_pc.kind,
                          active |-> g_active_hotplug_observer,
                          handler |-> GateHandler(jni_pc.kind),
                          entry_superseded |-> jni_pc.entry_superseded]
    /\ UNCHANGED <<g_active_hotplug_observer, g_on_device_added,
                   g_on_device_removed, ob, java_callback, unregistered,
                   app_pc, gate_call, gate_fault, envVars, obsVars, macVars,
                   idVars,
                   raceVars, apiVars, listVars, superseded>>

\* g_on_device_added((void*)observer_ptr). The globals are plain variables
\* written by another thread, so the call uses either the pointer loaded for
\* the test (reload = FALSE) or a second load; a second load that finds the
\* pointer cleared is a call through a null pointer.
SignalCall(reload) ==
    /\ Running
    /\ jni_pc.step = "passed"
    /\ IF reload /\ ~GateHandler(jni_pc.kind)
       THEN /\ gate_fault' = "null_handler_called"
            /\ jni_pc' = JniIdle
            /\ UNCHANGED gate_call
       ELSE /\ gate_call' = [ptr |-> jni_pc.ptr, kind |-> jni_pc.kind,
                             obs_state |-> ob[jni_pc.ptr].state,
                             unregistered |-> unregistered[jni_pc.ptr],
                             entry_state |-> jni_pc.entry_state,
                             entry_superseded |-> jni_pc.entry_superseded,
                             active |-> g_active_hotplug_observer]
            /\ jni_pc' = [jni_pc EXCEPT !.step = "handler"]
            /\ UNCHANGED gate_fault
    /\ UNCHANGED <<g_active_hotplug_observer, g_on_device_added,
                   g_on_device_removed, ob, java_callback, unregistered,
                   app_pc, envVars, obsVars, macVars, idVars,
                   raceVars, apiVars, listVars, superseded, gate_drop>>

\* on_device_added_static / on_device_removed_static: the observer's handler
\* runs (enumeration, diff, callbacks) and returns
SignalHandlerEnd ==
    /\ Running
    /\ jni_pc.step = "handler"
    /\ jni_pc' = JniIdle
    /\ UNCHANGED <<g_active_hotplug_observer, g_on_device_added,
                   g_on_device_removed, ob, java_callback, unregistered,
                   app_pc, gate_call, gate_fault, envVars, obsVars, macVars,
                   idVars,
                   raceVars, apiVars, listVars, superseded, gate_drop>>

InitGate ==
    /\ g_active_hotplug_observer = 0
    /\ g_on_device_added = FALSE
    /\ g_on_device_removed = FALSE
    /\ ob = [o \in Observers |->
                [state |-> "none", has_callbacks |-> FALSE,
                 midi_manager |-> FALSE, device_callback |-> FALSE]]
    /\ java_callback = [o \in Observers |-> "none"]
    /\ unregistered = [o \in Observers |-> FALSE]
    /\ app_pc = AppIdle
    /\ jni_pc = JniIdle
    /\ gate_call = NoCall
    /\ gate_fault = "none"
    /\ superseded = {}
    /\ gate_drop = NoDrop

\* ------------------------------------------- refreshInternal, step by step

Threads == {"caller", "queue"}

\* The caller's thread is in lrm_observer_refresh; CoreMIDI's dispatch queue
\* runs the client's block, handleMIDINotification, for the oldest
\* notification. Neither takes a lock, so each statement of refreshInternal
\* is a step of its own.

\* whether thread t may enter refreshInternal
MayRefresh(t) ==
    /\ lrm_state = "live"
    /\ refresh_pc[t] = "idle"
    /\ t = "queue" => (notifications # <<>> /\ Refreshes(Head(notifications)))

\* observer->get_input_ports()
RefreshEnumerateInputs(t) ==
    /\ MayRefresh(t)
    /\ refresh_tmp' = [refresh_tmp EXCEPT ![t] = mac_get_ports("input")]
    /\ refresh_pc' = [refresh_pc EXCEPT ![t] = "inputs_enumerated"]
    /\ UNCHANGED <<macVars, envVars, obsVars, idVars, gateVars, apiVars, listVars>>

\* input_ports = (the vector enumerated)
RefreshStoreInputs(t) ==
    /\ refresh_pc[t] = "inputs_enumerated"
    /\ input_ports' = refresh_tmp[t]
    /\ refresh_pc' = [refresh_pc EXCEPT ![t] = "inputs_stored"]
    /\ UNCHANGED <<char_signed, lrm_state, output_ports, hotplug_callback,
                   midiClient, notifications, hotplug_calls, mac_last,
                   free_calls, fault, refresh_tmp, envVars, obsVars, idVars,
                   gateVars, apiVars, listVars>>

\* observer->get_output_ports()
RefreshEnumerateOutputs(t) ==
    /\ refresh_pc[t] = "inputs_stored"
    /\ refresh_tmp' = [refresh_tmp EXCEPT ![t] = mac_get_ports("output")]
    /\ refresh_pc' = [refresh_pc EXCEPT ![t] = "outputs_enumerated"]
    /\ UNCHANGED <<macVars, envVars, obsVars, idVars, gateVars, apiVars, listVars>>

\* output_ports = (the vector enumerated); refreshInternal returns. On the
\* queue the handler then calls notifyHotplug for the notification and is
\* done with it.
RefreshStoreOutputs(t) ==
    /\ refresh_pc[t] = "outputs_enumerated"
    /\ output_ports' = refresh_tmp[t]
    /\ refresh_pc' = [refresh_pc EXCEPT ![t] = "idle"]
    /\ refresh_tmp' = [refresh_tmp EXCEPT ![t] = <<>>]
    /\ IF t = "queue"
       THEN /\ hotplug_calls' =
                   hotplug_calls \o notifyHotplug(EventsFor(Head(notifications)))
            /\ notifications' = Tail(notifications)
       ELSE UNCHANGED <<hotplug_calls, notifications>>
    /\ UNCHANGED <<char_signed, lrm_state, input_ports, hotplug_callback,
                   midiClient, mac_last, free_calls, fault, envVars, obsVars,
                   idVars, gateVars, apiVars, listVars>>

InitRace ==
    /\ refresh_pc = [t \in Threads |-> "idle"]
    /\ refresh_tmp = [t \in Threads |-> <<>>]

\* ------------------------------------------------------- calls on a handle

\* the largest index a caller passes to get or open
MaxIndex == 2

ApiIndices == -1..MaxIndex

ApiOps ==
    {"refresh", "get_input_count", "get_output_count", "get_input",
     "get_output", "midi_out_open"}

NoApi ==
    [op |-> "none", handle |-> "null", index |-> 0, has_result |-> FALSE,
     rc |-> 0, info |-> NoInfo, reads_freed |-> FALSE]

\* What a call that dereferences a freed LrmObserver can do: find the bytes
\* the object last held, find other bytes, or fault.
FreedOutcomes == {"stale", "garbage", "crash"}

GarbageResults == {-1, 0, 1}

\* lrm_midi_out_open: whether a handle is returned (new LrmMidiOut)
lrm_midi_out_open(index) ==
    IF lrm_state = "null" THEN 0
    ELSE IF index < 0 \/ index >= Len(output_ports) THEN 0
    ELSE 1

\* the value an operation returns for the handle as the code reads it
ApiResult(op, index) ==
    CASE op = "get_input_count" -> lrm_observer_get_input_count
      [] op = "get_output_count" -> lrm_observer_get_output_count
      [] op = "get_input" -> lrm_observer_get_input(index).rc
      [] op = "get_output" -> lrm_observer_get_output(index).rc
      [] op = "midi_out_open" -> lrm_midi_out_open(index)
      [] OTHER -> 0

\* the LrmPortInfo of the caller after the call; it was NoInfo before
ApiInfo(op, index) ==
    CASE op = "get_input" -> lrm_observer_get_input(index).info
      [] op = "get_output" -> lrm_observer_get_output(index).info
      [] OTHER -> NoInfo

\* One call of lrm_observer_refresh, lrm_observer_get_input_count,
\* lrm_observer_get_output_count, lrm_observer_get_input,
\* lrm_observer_get_output or lrm_midi_out_open with a null handle or the
\* handle of a live observer.
ApiCall(op, index) ==
    /\ fault = "none"
    /\ lrm_state \in {"null", "live"}
    /\ op \in {"get_input", "get_output", "midi_out_open"} \/ index = 0
    /\ api_last' =
           [op |-> op, handle |-> lrm_state, index |-> index,
            has_result |-> op # "refresh",
            rc |-> ApiResult(op, index),
            info |-> ApiInfo(op, index),
            reads_freed |-> FALSE]
    /\ IF op = "refresh" /\ lrm_state = "live"
       THEN /\ input_ports' = mac_get_ports("input")
            /\ output_ports' = mac_get_ports("output")
       ELSE UNCHANGED <<input_ports, output_ports>>
    /\ UNCHANGED <<char_signed, lrm_state, hotplug_callback, midiClient,
                   notifications, hotplug_calls, mac_last, free_calls, fault,
                   envVars, obsVars, idVars, gateVars, raceVars, listVars>>

\* The same call with the handle of an observer that lrm_observer_free has
\* deleted. The functions test the handle against null only, so the freed
\* object is dereferenced: undefined behaviour, and what the program does
\* after its first occurrence is not modelled.
ApiCallFreed(op, index, outcome, garbage) ==
    /\ fault = "none"
    /\ lrm_state = "freed"
    /\ ~api_last.reads_freed
    /\ op \in {"get_input", "get_output", "midi_out_open"} \/ index = 0
    /\ outcome = "garbage" \/ garbage = 0
    /\ api_last' =
           [op |-> op, handle |-> lrm_state, index |-> index,
            has_result |-> op # "refresh" /\ outcome # "crash",
            rc |-> CASE outcome = "garbage" -> garbage
                     [] outcome = "crash" -> 0
                     [] OTHER -> ApiResult(op, index),
            info |-> IF outcome = "stale" THEN ApiInfo(op, index) ELSE NoInfo,
            reads_freed |-> TRUE]
    /\ fault' = IF outcome = "crash" THEN "use_after_free" ELSE fault
    /\ UNCHANGED <<char_signed, lrm_state, input_ports, output_ports,
                   hotplug_callback, midiClient, notifications, hotplug_calls,
                   mac_last, free_calls, envVars, obsVars, idVars, gateVars,
                   raceVars, listVars>>

InitApi == api_last = NoApi

\* ------------------------------------------- the process-wide device list

\* The application's thread calls get_input_ports / get_output_ports; the
\* main looper calls them in on_device_added / on_device_removed.
EnumThreads == {"caller", "looper"}

EnumIdle == [step |-> "idle", dir |-> "none", i |-> 0, ports |-> <<>>]

NoEnum == [thread |-> "none", dir |-> "none", ports |-> <<>>]

\* get_input_ports / get_output_ports begins on a thread that has a JNI
\* environment and a context, and calls context::refresh_midi_devices
EnumBegin(t, dir) ==
    /\ enum_pc[t].step = "idle"
    /\ enum_pc' = [enum_pc EXCEPT ![t] = [EnumIdle EXCEPT !.step = "cleanup",
                                                          !.dir = dir]]
    /\ UNCHANGED <<midi_ports, enum_last, envVars, obsVars, macVars, idVars,
                   gateVars, raceVars, apiVars>>

\* refresh_midi_devices: cleanup_devices(env) releases the entries and
\* clears the list
EnumCleanup(t) ==
    /\ enum_pc[t].step = "cleanup"
    /\ midi_ports' = <<>>
    /\ enum_pc' = [enum_pc EXCEPT ![t].step = "fill"]
    /\ UNCHANGED <<enum_last, envVars, obsVars, macVars, idVars, gateVars,
                   raceVars, apiVars>>

\* refresh_midi_devices: the loop over the devices of the MidiManager pushes
\* one entry for each port of the direction, one push_back at a time
EnumPush(t) ==
    /\ enum_pc[t].step = "fill"
    /\ LET dir == enum_pc[t].dir
           i == enum_pc[t].i
       IN  IF i < Len(topology[dir])
           THEN /\ midi_ports' =
                       Append(midi_ports, [dev |-> topology[dir][i + 1].dev])
                /\ enum_pc' = [enum_pc EXCEPT ![t].i = i + 1]
           ELSE /\ enum_pc' = [enum_pc EXCEPT ![t].step = "read", ![t].i = 0]
                /\ UNCHANGED midi_ports
    /\ UNCHANGED <<enum_last, envVars, obsVars, macVars, idVars, gateVars,
                   raceVars, apiVars>>

\* the loop of get_input_ports / get_output_ports: while i is below the size
\* of the list, a port is made from entry i; then the ports are returned
EnumRead(t) ==
    /\ enum_pc[t].step = "read"
    /\ LET i == enum_pc[t].i
       IN  IF i < Len(midi_ports)
           THEN /\ enum_pc' =
                       [enum_pc EXCEPT
                           ![t].ports = Append(@, AndroidPort(i, midi_ports[i + 1].dev)),
                           ![t].i = i + 1]
                /\ UNCHANGED enum_last
           ELSE /\ enum_last' = [thread |-> t, dir |-> enum_pc[t].dir,
                                 ports |-> enum_pc[t].ports]
                /\ enum_pc' = [enum_pc EXCEPT ![t] = EnumIdle]
    /\ UNCHANGED <<midi_ports, envVars, obsVars, macVars, idVars, gateVars,
                   raceVars, apiVars>>

InitList ==
    /\ midi_ports = <<>>
    /\ enum_pc = [t \in EnumThreads |-> EnumIdle]
    /\ enum_last = NoEnum

\* -------------------------------------------------------- specifications

vars == <<envVars, obsVars, macVars, idVars, gateVars, raceVars, apiVars, listVars>>

Init ==
    /\ topology \in InitialTopologies
    /\ history = <<>>
    /\ InitObserver
    /\ InitMac
    /\ char_signed = TRUE
    /\ InitId
    /\ InitGate
    /\ InitRace
    /\ InitApi
    /\ InitList

Next ==
    \/ \E conf \in Configurations : Construct(conf)
    \/ \E dir \in Dirs, d \in Devs : Attach(dir, d)
    \/ \E dir \in Dirs : \E i \in 1..Len(topology[dir]) : Detach(dir, i)
    \/ on_device_added
    \/ on_device_removed

Spec == Init /\ [][Next]_vars

\* The Android observer where an enumeration may find the backend out of
\* reach.
NextEnum ==
    \/ \E conf \in Configurations : Construct(conf)
    \/ \E dir \in Dirs, d \in Devs : Attach(dir, d)
    \/ \E dir \in Dirs : \E i \in 1..Len(topology[dir]) : Detach(dir, i)
    \/ \E reachable \in BOOLEAN : on_device_added_on(reachable)
    \/ \E reachable \in BOOLEAN : on_device_removed_on(reachable)

SpecEnum == Init /\ [][NextEnum]_vars

InitMacSpec ==
    /\ topology \in InitialTopologies
    /\ history = <<>>
    /\ InitObserver
    /\ InitMac
    /\ char_signed \in BOOLEAN
    /\ InitId
    /\ InitGate
    /\ InitRace
    /\ InitApi
    /\ InitList

NextMac ==
    \/ \E ok \in BOOLEAN : lrm_observer_new_with_callbacks(ok)
    \/ lrm_observer_new
    \/ \E dir \in Dirs, d \in Devs :
           \E post \in Posted("ObjectAdded", dir) : MacAttach(dir, d, post)
    \/ \E dir \in Dirs : \E i \in 1..Len(topology[dir]) :
           \E post \in Posted("ObjectRemoved", dir) : MacDetach(dir, i, post)
    \/ \E n \in OtherNotifications : MacOtherNotification(n)
    \/ handleMIDINotification
    \/ lrm_observer_refresh
    \/ \E outcome \in FreeOutcomes : lrm_observer_free(outcome)

SpecMac == InitMacSpec /\ [][NextMac]_vars


\* The wrapper where two units of one device may be present.
InitDupSpec ==
    /\ InitMacSpec
    /\ char_signed

NextDup ==
    \/ \E ok \in BOOLEAN : lrm_observer_new_with_callbacks(ok)
    \/ lrm_observer_new
    \/ \E dir \in Dirs, d \in Devs :
           \E post \in Posted("ObjectAdded", dir) : MacAttach(dir, d, post)
    \/ \E dir \in Dirs, d \in Devs :
           \E post \in Posted("ObjectAdded", dir) : MacAttachTwin(dir, d, post)
    \/ handleMIDINotification
    \/ lrm_observer_refresh

SpecDup == InitDupSpec /\ [][NextDup]_vars

InitIdSpec ==
    /\ topology = [input |-> <<>>, output |-> <<>>]
    /\ history = <<>>
    /\ InitObserver
    /\ InitMac
    /\ char_signed \in BOOLEAN
    /\ fill_in \in [1..2 -> IdArgs]
    /\ fill_out = <<>>
    /\ fill_mem = <<>>
    /\ InitGate
    /\ InitRace
    /\ InitApi
    /\ InitList

NextId == FillPortInfo

SpecId == InitIdSpec /\ [][NextId]_vars

InitLongSpec ==
    /\ topology = [input |-> <<>>, output |-> <<>>]
    /\ history = <<>>
    /\ InitObserver
    /\ InitMac
    /\ char_signed \in BOOLEAN
    /\ fill_in \in LongPairs
    /\ fill_out = <<>>
    /\ fill_mem = <<>>
    /\ InitGate
    /\ InitRace
    /\ InitApi
    /\ InitList

NextLong == FillPortInfo

SpecLong == InitLongSpec /\ [][NextLong]_vars

InitGateSpec ==
    /\ topology = [input |-> <<>>, output |-> <<>>]
    /\ history = <<>>
    /\ InitObserver
    /\ InitMac
    /\ char_signed = TRUE
    /\ InitId
    /\ InitGate
    /\ InitRace
    /\ InitApi
    /\ InitList

NextGate ==
    \/ \E o \in Observers, env_ok \in BOOLEAN, reg_ok \in BOOLEAN :
           ConstructBegin(o, env_ok, reg_ok)
    \/ \E o \in Observers : ConstructPlain(o)
    \/ ConstructSetObserver
    \/ ConstructSetAdded
    \/ ConstructSetRemoved
    \/ ConstructEnd
    \/ \E o \in Observers, env_ok \in BOOLEAN : DestroyBegin(o, env_ok)
    \/ DestroyClearObserver
    \/ DestroyClearAdded
    \/ DestroyClearRemoved
    \/ DestroyUnregister
    \/ DestroyRelease
    \/ DestroyEnd
    \/ \E o \in Observers, kind \in {"added", "removed"} : SignalEnter(o, kind)
    \/ SignalCheckHandler
    \/ SignalCheckObserver
    \/ \E reload \in BOOLEAN : SignalCall(reload)
    \/ SignalHandlerEnd

SpecGate == InitGateSpec /\ [][NextGate]_vars

InitRaceSpec == InitMacSpec

NextRace ==
    \/ \E client_ok \in BOOLEAN : lrm_observer_new_with_callbacks(client_ok)
    \/ \E dir \in Dirs, d \in Devs :
           \E post \in Posted("ObjectAdded", dir) : MacAttach(dir, d, post)
    \/ \E dir \in Dirs : \E i \in 1..Len(topology[dir]) :
           \E post \in Posted("ObjectRemoved", dir) : MacDetach(dir, i, post)
    \/ \E t \in Threads : RefreshEnumerateInputs(t)
    \/ \E t \in Threads : RefreshStoreInputs(t)
    \/ \E t \in Threads : RefreshEnumerateOutputs(t)
    \/ \E t \in Threads : RefreshStoreOutputs(t)

SpecRace == InitRaceSpec /\ [][NextRace]_vars

InitApiSpec ==
    /\ InitMacSpec
    /\ char_signed

NextApi ==
    \/ lrm_observer_new
    \/ \E dir \in Dirs, d \in Devs :
           \E post \in Posted("ObjectAdded", dir) : MacAttach(dir, d, post)
    \/ lrm_state = "live" /\ lrm_observer_free("none")
    \/ \E op \in ApiOps, index \in ApiIndices : ApiCall(op, index)
    \/ \E op \in ApiOps, index \in ApiIndices :
           \E outcome \in FreedOutcomes, garbage \in GarbageResults :
               ApiCallFreed(op, index, outcome, garbage)

SpecApi == InitApiSpec /\ [][NextApi]_vars

InitListSpec ==
    /\ topology \in InitialTopologies
    /\ history = <<>>
    /\ InitObserver
    /\ InitMac
    /\ char_signed = TRUE
    /\ InitId
    /\ InitGate
    /\ InitRace
    /\ InitApi
    /\ InitList

NextList ==
    \/ \E t \in EnumThreads, dir \in Dirs : EnumBegin(t, dir)
    \/ \E t \in EnumThreads : EnumCleanup(t)
    \/ \E t \in EnumThreads : EnumPush(t)
    \/ \E t \in EnumThreads : EnumRead(t)

SpecList == InitListSpec /\ [][NextList]_vars

\* ------------------------------------------------------------ claims, Spec

Cb(dir, kind) ==
    IF dir = "input"
    THEN (IF kind = "added" THEN "input_added" ELSE "input_removed")
    ELSE (IF kind = "added" THEN "output_added" ELSE "output_removed")

\* how often port d joined / left direction dir since construction, and how
\* often the caller was told so
Joined(dir, d) == Count(history, <<"attach", dir, d>>)

Left(dir, d) == Count(history, <<"detach", dir, d>>)

AddedEvents(dir, d) == Count(calls, <<Cb(dir, "added"), d>>)

RemovedEvents(dir, d) == Count(calls, <<Cb(dir, "removed"), d>>)

AllCallbacksSet ==
    /\ \A cb \in Callbacks : configuration[cb]
    /\ ~configuration.notify_in_constructor

\* C1: once every pending signal has been handled, no change of the topology
\* has been missed and none has been reported twice. Stated in the form that
\* a join and a leave of the same port which cancel before any signal is
\* handled do not disturb: no port has more added events than joins or more
\* removed events than leaves, and the events the caller received add up to
\* the ports that are really there (added - removed = joined - left).
C1_ExactlyOncePerChange ==
    (obs_state = "Active" /\ AllCallbacksSet /\ signals = <<>>) =>
        \A dir \in Dirs, d \in Devs :
            /\ AddedEvents(dir, d) <= Joined(dir, d)
            /\ RemovedEvents(dir, d) <= Left(dir, d)
            /\ AddedEvents(dir, d) - RemovedEvents(dir, d)
                   = Joined(dir, d) - Left(dir, d)

\* the two lists of the diff as the specification words them
SpecAdded(old, new) == KeyAbsent(new, Keys(old))

SpecRemoved(old, new) == KeyAbsent(old, Keys(new))

\* C2: one diff of the cache (old) against the fresh enumeration (new) gives
\* both lists: whenever a handler of an observer with all four callbacks has
\* diffed a direction, the added ports it delivered are the ports of new
\* absent from old and the removed ports it delivered are the ports of old
\* absent from new.
C2_DiffYieldsBothLists ==
    \A dir \in Dirs :
        (last.ran[dir] /\ \A cb \in Callbacks : configuration[cb]) =>
            /\ last.added[dir] = SpecAdded(last.old[dir], last.new[dir])
            /\ last.removed[dir] = SpecRemoved(last.old[dir], last.new[dir])

FieldsOf(s) == {Fields(s[i]) : i \in 1..Len(s)}

\* C3: a port whose identifying fields are in both the cache and the new
\* enumeration is in neither the added nor the removed list of the handler,
\* whatever happened to its index; so a handler that finds the same ports
\* delivers nothing.
C3_NoSpuriousChurn ==
    \A dir \in Dirs :
        \A f \in FieldsOf(last.old[dir]) \cap FieldsOf(last.new[dir]) :
            /\ f \notin FieldsOf(last.added[dir])
            /\ f \notin FieldsOf(last.removed[dir])

\* C3 witness: a handler has diffed a direction in which a port kept its
\* identifying fields while its enumeration index changed.
C3_Witness ==
    \E dir \in Dirs :
        /\ last.ran[dir]
        /\ \E i \in 1..Len(last.old[dir]), j \in 1..Len(last.new[dir]) :
              /\ Fields(last.old[dir][i]) = Fields(last.new[dir][j])
              /\ last.old[dir][i].port # last.new[dir][j].port

\* each present port of a direction whose added callback is set has been
\* announced once, and no other port of that direction has
AnnouncedOnce ==
    \A dir \in Dirs :
        configuration[Cb(dir, "added")] =>
            \A d \in Devs :
                AddedEvents(dir, d)
                    = IF d \in DevsOf(topology[dir]) THEN 1 ELSE 0

\* the topology is the one of the construction again: one port came and left
Cancelled ==
    /\ Len(history) = 2
    /\ history[1][1] = "attach"
    /\ history[2] = <<"detach", history[1][2], history[1][3]>>

\* C18: an observer constructed with notify_in_constructor has called the
\* added callback once for every port present at construction, and the first
\* added signal handled afterwards, if it finds the topology of the
\* construction, adds no call for these ports.
C18_ExistingPortsAnnouncedOnce ==
    (obs_state = "Active" /\ configuration.notify_in_constructor) =>
        /\ history = <<>> => AnnouncedOnce
        /\ (/\ Cancelled
            /\ Len(signals) = 1
            /\ last.kind = "added"
            /\ \A dir \in Dirs : last.new[dir] = get_ports(dir)) =>
               /\ AnnouncedOnce
               /\ \A dir \in Dirs : last.added[dir] = <<>>

\* The first added signal after a construction that announced two inputs and
\* one output has been handled where the topology was that of the
\* construction.
C18_Witness ==
    /\ obs_state = "Active"
    /\ configuration.notify_in_constructor
    /\ configuration.input_added
    /\ configuration.output_added
    /\ Cancelled
    /\ Len(signals) = 1
    /\ last.kind = "added"
    /\ \A dir \in Dirs : last.new[dir] = get_ports(dir)
    /\ Len(topology["input"]) = 2
    /\ Len(topology["output"]) = 1
    /\ Len(calls) = 3

\* C23: a handler that called a callback for an input had by then brought
\* the cache of both directions to the state it leaves it in, so that the
\* callback finds the outputs already updated.
C23_BothDirectionsBeforeCallbacks ==
    (last.added["input"] # <<>> \/ last.removed["input"] # <<>>) =>
        last.seen = last.after

\* the calls of fired that are about direction dir
RECURSIVE FiredFor(_, _)
FiredFor(fired, dir) ==
    IF fired = <<>> THEN <<>>
    ELSE (IF Head(fired)[1] \in {Cb(dir, "added"), Cb(dir, "removed")}
          THEN <<Head(fired)>> ELSE <<>>) \o FiredFor(Tail(fired), dir)

\* C24: a handler of an observer with all four callbacks calls, for each
\* direction, the added callback once for every port of the new enumeration
\* that the cache lacked, in the order of the enumeration, and then the
\* removed callback once for every port of the cache that the enumeration
\* lacks.
C24_AddedThenRemovedInOrder ==
    (last.kind # "none" /\ \A cb \in Callbacks : configuration[cb]) =>
        \A dir \in Dirs :
            FiredFor(last.fired, dir)
                = Invocations(Cb(dir, "added"),
                              SpecAdded(last.old[dir], last.new[dir]))
                  \o Invocations(Cb(dir, "removed"),
                                 SpecRemoved(last.old[dir], last.new[dir]))

\* C27: when a handler has returned, the cache of each direction is the list
\* the backend had for that direction when the handler ran, whichever signal
\* it handled and whichever callbacks are set.
C27_CacheIsNewSnapshot ==
    last.kind # "none" =>
        /\ cached_inputs = last.new["input"]
        /\ cached_outputs = last.new["output"]

\* whether port d was present in direction dir at construction: 1 or 0
PresentAtStart(dir, d) ==
    (IF d \in DevsOf(topology[dir]) THEN 1 ELSE 0) - Joined(dir, d) + Left(dir, d)

\* how often x occurs among the first k elements of s
CountUpTo(s, k, x) == Cardinality({i \in 1..k : s[i] = x})

\* C29: at no point of the sequence of callbacks delivered has a port had
\* more removed events than added events, a port present at construction
\* being allowed the one removal that answers no addition seen by the
\* observer.
C29_RemovedNeverBeforeAdded ==
    obs_state = "Active" =>
        \A dir \in Dirs :
            (configuration[Cb(dir, "added")] /\ configuration[Cb(dir, "removed")]) =>
                \A d \in Devs, k \in 0..Len(calls) :
                    CountUpTo(calls, k, <<Cb(dir, "removed"), d>>)
                        <= CountUpTo(calls, k, <<Cb(dir, "added"), d>>)
                               + PresentAtStart(dir, d)

\* the positions of calls that are about port d in direction dir
About(dir, d) ==
    {i \in 1..Len(calls) :
        calls[i] \in {<<Cb(dir, "added"), d>>, <<Cb(dir, "removed"), d>>}}

\* the last position before k that is about the port of calls[k], 0 if none
Previous(dir, d, k) ==
    LET before == {i \in About(dir, d) : i < k}
    IN  IF before = {} THEN 0
        ELSE CHOOSE i \in before : \A j \in before : j <= i

\* C37: for each port and direction the callbacks delivered alternate: an
\* added call follows no call or a removed call of that port, and a removed
\* call follows an added call of that port, or no call if the port was
\* present at construction.
C37_EventsAlternate ==
    obs_state = "Active" =>
        \A dir \in Dirs :
            (configuration[Cb(dir, "added")] /\ configuration[Cb(dir, "removed")]) =>
                \A d \in Devs : \A k \in About(dir, d) :
                    LET p == Previous(dir, d, k)
                    IN  IF calls[k][1] = Cb(dir, "added")
                        THEN p = 0 \/ calls[p][1] = Cb(dir, "removed")
                        ELSE IF p = 0 THEN PresentAtStart(dir, d) = 1
                             ELSE calls[p][1] = Cb(dir, "added")

\* -------------------------------------------------------- claims, SpecEnum

\* C15: a handler whose enumeration found the backend out of reach has
\* called no callback and has left both cached lists as they were.
C15_FailedEnumerationIsNoChange ==
    last.failed =>
        /\ \A dir \in Dirs : last.added[dir] = <<>> /\ last.removed[dir] = <<>>
        /\ cached_inputs = last.old["input"]
        /\ cached_outputs = last.old["output"]

\* ---------------------------------------------------------- claims, SpecId

IdFields(port) == <<port.port_name, port.manufacturer, port.product, port.serial>>

\* C4: two ports with the same port_name, manufacturer, product and serial
\* get the same stable_id from fill_port_info, whatever their native handles,
\* their enumeration indices and their directions.
C4_StableIdDeterministic ==
    (fill_out # <<>> /\ IdFields(fill_in[1].port) = IdFields(fill_in[2].port)) =>
        fill_out[1].stable_id = fill_out[2].stable_id

\* C4 witness: both records are written for ports that share a port_name and
\* have empty manufacturer, product and serial, and that differ in port
\* handle, client handle, index and direction.
C4_Witness ==
    /\ fill_out # <<>>
    /\ IdFields(fill_in[1].port) = IdFields(fill_in[2].port)
    /\ fill_in[1].port.manufacturer = <<>>
    /\ fill_in[1].port.product = <<>>
    /\ fill_in[1].port.serial = <<>>
    /\ fill_out[1].port_id # fill_out[2].port_id
    /\ fill_out[1].client_handle # fill_out[2].client_handle
    /\ fill_out[1].index # fill_out[2].index
    /\ fill_out[1].is_input # fill_out[2].is_input
    /\ fill_out[1].stable_id = fill_out[2].stable_id

\* C22: the stable_id written for a port is the FNV-1a hash of its key with
\* every byte of the key taken as a value from 0 to 255, whether the build's
\* plain char is signed or not.
C22_StableIdPlatformIndependent ==
    fill_out # <<>> =>
        \A i \in 1..2 :
            fill_out[i].stable_id
                = fnv1a_hash(lrm_port_key(fill_in[i].port), FALSE)

\* -------------------------------------------------------- claims, SpecLong

\* C32: every string field of a record written holds the first
\* min(len, capacity - 1) bytes of its source and then a zero byte, the caller
\* reads exactly those bytes as the string, and no byte is written outside
\* the capacity of the field.
C32_FieldsTruncatedSafely ==
    fill_out # <<>> =>
        \A i \in 1..2 : \A f \in DOMAIN StringFields :
            LET src == fill_in[i].port[f]
                k == Min(Len(src), StringFields[f] - 1)
            IN  /\ DOMAIN fill_mem[i][f] \subseteq 1..StringFields[f]
                /\ \A j \in 1..k : fill_mem[i][f][j] = src[j]
                /\ fill_mem[i][f][k + 1] = 0
                /\ fill_out[i][f] = SubSeq(src, 1, k)

\* C32 witness: a record is written for a port whose name is longer than 255
\* bytes and whose serial number is longer than 127 bytes; both are cut.
C32_Witness ==
    /\ fill_out # <<>>
    /\ Len(fill_in[1].port.port_name) > NAME_SIZE - 1
    /\ Len(fill_in[1].port.serial) > SERIAL_SIZE - 1
    /\ Len(fill_out[1].port_name) = NAME_SIZE - 1
    /\ Len(fill_out[1].serial) = SERIAL_SIZE - 1

\* C38: the stable_id of a record written is the hash of the key made of the
\* port_name, manufacturer, product and serial the record itself returns, so
\* two records that return equal identifying fields have equal stable_id,
\* also when a string of the port was too long for its field.
C38_StableIdOfReturnedFields ==
    fill_out # <<>> =>
        /\ IdFields(fill_out[1]) = IdFields(fill_out[2])
               => fill_out[1].stable_id = fill_out[2].stable_id
        /\ \A i \in 1..2 :
               fill_out[i].stable_id
                   = fnv1a_hash(lrm_port_key(fill_out[i]), char_signed)

\* --------------------------------------------------------- claims, SpecMac

Quiet ==
    /\ lrm_state = "live"
    /\ hotplug_callback
    /\ midiClient # 0
    /\ notifications = <<>>

NoPorts == [input |-> <<>>, output |-> <<>>]

\* C5: for an observer created with a callback while no port exists: no input
\* is counted; once one input port has appeared and its notifications are
\* handled, the callback has been called with INPUT_ADDED exactly once, one
\* input is counted and its stable_id is the hash of the port's fields; once
\* that port has gone again and its notifications are handled, the callback
\* has been called with INPUT_REMOVED exactly once and no input is counted.
C5_EndToEnd ==
    Quiet =>
        /\ (history = <<>> /\ topology = NoPorts) =>
               lrm_observer_get_input_count = 0
        /\ \A d \in Devs :
               /\ (/\ history = <<<<"attach", "input", d>>>>
                   /\ topology = [input |-> <<[dev |-> d, ref |-> 1]>>,
                                   output |-> <<>>]) =>
                      /\ Count(hotplug_calls, LRM_EVENT_INPUT_ADDED) = 1
                      /\ lrm_observer_get_input_count = 1
                      /\ lrm_observer_get_input(0).rc = LRM_OK
                      /\ lrm_observer_get_input(0).info.stable_id
                             = fnv1a_hash(lrm_port_key(DevFields[d]), char_signed)
               /\ (/\ history = <<<<"attach", "input", d>>, <<"detach", "input", d>>>>
                   /\ topology = NoPorts) =>
                      /\ Count(hotplug_calls, LRM_EVENT_INPUT_REMOVED) = 1
                      /\ lrm_observer_get_input_count = 0

MacKeys(s) == {lrm_port_key(s[i]) : i \in 1..Len(s)}

\* whether the list new has a port the list old has not
Gained(old, new) == \E i \in 1..Len(new) : lrm_port_key(new[i]) \notin MacKeys(old)

\* C6: the setup-changed notification makes the handler enumerate both
\* directions again, and it calls the callback with an added event of a
\* direction only if that direction gained a port against the cache; if
\* nothing changed the callback is not called.
C6_SetupChangedOnlyGenuine ==
    (mac_last.messageID = "SetupChanged" /\ hotplug_callback) =>
        /\ mac_last.new.input = mac_get_ports("input")
        /\ mac_last.new.output = mac_get_ports("output")
        /\ Count(mac_last.fired, LRM_EVENT_INPUT_ADDED) > 0 =>
               Gained(mac_last.old.input, mac_last.new.input)
        /\ Count(mac_last.fired, LRM_EVENT_OUTPUT_ADDED) > 0 =>
               Gained(mac_last.old.output, mac_last.new.output)
        /\ (mac_last.old = mac_last.new) => mac_last.fired = <<>>

\* C10: a second lrm_observer_free of the same handle does no harm.
C10_SecondFreeIsNoOp ==
    free_calls >= 2 => fault = "none"

\* C16: an observer asked for with a callback whose registration with the
\* backend failed is not returned: no live observer has a callback and no
\* MIDI client.
C16_FailedRegistrationIsAtomic ==
    ~(lrm_state = "live" /\ hotplug_callback /\ midiClient = 0)

\* C17: from the return of lrm_observer_new or
\* lrm_observer_new_with_callbacks, and as long as the setup is the one of
\* that moment, the counts are the numbers of input and output ports of the
\* backend.
C17_InitialEnumeration ==
    (lrm_state = "live" /\ history = <<>>) =>
        /\ lrm_observer_get_input_count = Len(topology["input"])
        /\ lrm_observer_get_output_count = Len(topology["output"])
        /\ input_ports = mac_get_ports("input")
        /\ output_ports = mac_get_ports("output")

\* An observer with a callback has just been created where two inputs and
\* one output exist.
C17_Witness ==
    /\ lrm_state = "live"
    /\ history = <<>>
    /\ hotplug_callback
    /\ mac_last = NoMacLast
    /\ lrm_observer_get_input_count = 2
    /\ lrm_observer_get_output_count = 1

\* C19: lrm_observer_refresh on a live handle replaces both cached lists
\* with the backend's lists of that moment, whatever they held, so that the
\* counts and the ports read afterwards by index are the backend's, and it
\* does not call the hotplug callback.
C19_RefreshReplacesCache ==
    [][(mac_last' # mac_last /\ mac_last'.messageID = "refresh") =>
        /\ input_ports' = mac_get_ports("input")
        /\ output_ports' = mac_get_ports("output")
        /\ lrm_observer_get_input_count' = Len(topology["input"])
        /\ lrm_observer_get_output_count' = Len(topology["output"])
        /\ \A i \in 1..Len(topology["input"]) :
               input_ports'[i].port = topology["input"][i].ref
        /\ \A i \in 1..Len(topology["output"]) :
               output_ports'[i].port = topology["output"][i].ref
        /\ hotplug_calls' = hotplug_calls
        /\ topology' = topology
      ]_vars

\* A refresh of an observer with a callback has replaced a cache that lacked
\* an output of the backend, with a notification still waiting.
C19_Witness ==
    /\ lrm_state = "live"
    /\ hotplug_callback
    /\ mac_last.messageID = "refresh"
    /\ Len(mac_last.old.output) < Len(mac_last.new.output)
    /\ output_ports = mac_last.new.output
    /\ notifications # <<>>
    /\ hotplug_calls = <<>>

\* the event the caller is to get for a notification about an endpoint
EndpointEvent(messageID, childType) ==
    CASE messageID = "ObjectAdded" /\ childType = "Source"
             -> <<LRM_EVENT_INPUT_ADDED>>
      [] messageID = "ObjectRemoved" /\ childType = "Source"
             -> <<LRM_EVENT_INPUT_REMOVED>>
      [] messageID = "ObjectAdded" /\ childType = "Destination"
             -> <<LRM_EVENT_OUTPUT_ADDED>>
      [] messageID = "ObjectRemoved" /\ childType = "Destination"
             -> <<LRM_EVENT_OUTPUT_REMOVED>>
      [] OTHER -> <<>>

\* C31: the handler of a notification calls the callback of a live observer
\* with the event of the notification: input added or removed for a source
\* that was added or removed, output added or removed for a destination, and
\* not at all for any other child type or message.
C31_EventMatchesNotification ==
    (lrm_state = "live" /\ hotplug_callback
        /\ mac_last.messageID \notin {"none", "refresh"}) =>
        /\ mac_last.fired = EndpointEvent(mac_last.messageID, mac_last.childType)
        /\ \A i \in 1..Len(hotplug_calls) : hotplug_calls[i] \in 0..3

\* --------------------------------------------------------- claims, SpecDup

StableIds(ports) == [i \in 1..Len(ports) |-> stable_id_of(ports[i])]

Distinct(s) == \A i, j \in 1..Len(s) : i # j => s[i] # s[j]

\* C21: no two ports of the cached list of a direction, which is the list
\* the caller reads by index, have the same stable_id.
C21_PortListDeduplicated ==
    lrm_state = "live" =>
        /\ Distinct(StableIds(input_ports))
        /\ Distinct(StableIds(output_ports))

\* -------------------------------------------------------- claims, SpecGate

\* C7: a signal that enters the native callback after the destructor of its
\* observer has returned does not reach the observer's handler.
C7_SilentAfterDispose ==
    gate_call.entry_state # "freed"

\* C8: a signal that entered the native callback while its observer was alive
\* never has the observer's handler running on the observer once the
\* destructor has released it; stated for a destructor that had a JNI
\* environment and cleared the gate.
C8_NoUseOfFreedObserver ==
    (/\ jni_pc.step = "handler"
     /\ jni_pc.entry_state = "alive"
     /\ unregistered[jni_pc.ptr]) =>
        ob[jni_pc.ptr].state # "freed"

\* C9: no handler is invoked on an observer for which
\* clear_hotplug_observer has returned.
C9_NoHandlerAfterUnregister ==
    ~gate_call.unregistered

\* C20: the gate has one slot and set_hotplug_observer overwrites it. A
\* signal that enters for an observer whose registration a later observer
\* has overwritten never passes the gate, and a signal is dropped
\* only when, at the test that drops it, the observer it is addressed to is
\* not the registered one or no handler is set.
C20_LastWriterWins ==
    /\ ~gate_call.entry_superseded
    /\ jni_pc.step \in {"passed", "handler"} => ~jni_pc.entry_superseded
    /\ gate_drop.ptr # 0 =>
           (gate_drop.active # gate_drop.ptr \/ ~gate_drop.handler)

\* C20 witness: observer 2 was registered over observer 1; a signal for
\* observer 1 that entered afterwards was dropped while observer 2 was the
\* registered one, and the gate has invoked the handler of observer 2.
C20_Witness ==
    /\ superseded = {1}
    /\ g_active_hotplug_observer = 2
    /\ gate_drop.ptr = 1
    /\ gate_drop.entry_superseded
    /\ gate_drop.active = 2
    /\ gate_drop.handler
    /\ gate_call.ptr = 2
    /\ gate_call.obs_state = "alive"

\* C25: when the gate invokes a handler, the observer the signal is
\* addressed to is the registered observer.
C25_DispatchOnlyToRegistered ==
    gate_call.ptr # 0 => gate_call.active = gate_call.ptr

\* C26: the destructor removes the Java callback from the MidiManager and
\* releases the MidiManager reference only when the gate no longer names
\* the observer.
C26_GateClearedBeforeRelease ==
    [][\A o \in Observers :
          (\/ (java_callback[o] = "registered"
                  /\ java_callback'[o] = "unregistered")
           \/ (ob[o].midi_manager /\ ~ob'[o].midi_manager)) =>
              g_active_hotplug_observer # o
      ]_vars

\* C30: an observer without callbacks has no Java callback registered, is
\* never the observer the gate names and never has a handler invoked on it,
\* and no step of its constructor or its destructor changes the gate.
C30_PlainObserverLeavesGateAlone ==
    [][\A o \in Observers :
          (ob'[o].state # "none" /\ ~ob'[o].has_callbacks) =>
              /\ java_callback'[o] = "none"
              /\ g_active_hotplug_observer' # o
              /\ gate_call'.ptr # o
              /\ (ob'[o] # ob[o] \/ app_pc.o = o \/ app_pc'.o = o) =>
                     UNCHANGED <<g_active_hotplug_observer, g_on_device_added,
                                 g_on_device_removed, java_callback>>
      ]_vars

\* An observer without callbacks has been constructed and destroyed, with a
\* JNI environment, while the gate named the other observer, and the gate
\* still names it and has since invoked its handler.
C30_Witness ==
    /\ ob[1].state = "freed"
    /\ ~ob[1].has_callbacks
    /\ ob[2].state = "alive"
    /\ g_active_hotplug_observer = 2
    /\ g_on_device_added
    /\ g_on_device_removed
    /\ jni_pc.step = "handler"
    /\ jni_pc.ptr = 2
    /\ jni_pc.entry_state = "alive"

\* the gate: the registered observer and the two handlers
GateSlot ==
    <<g_active_hotplug_observer, g_on_device_added, g_on_device_removed>>

\* C33: no step of the destructor of an observer whose registration a later
\* observer has overwritten changes the gate while the gate names that later
\* observer.
C33_DisposeOfReplacedKeepsGate ==
    [][(/\ app_pc.op \in {"dtor_clear_observer", "dtor_clear_added",
                          "dtor_clear_removed", "dtor_unregister",
                          "dtor_release", "dtor_return"}
        /\ app_pc.o \in superseded
        /\ g_active_hotplug_observer \notin {0, app_pc.o}) =>
           GateSlot' = GateSlot
      ]_vars

\* C34: the gate names no observer or one whose destructor has not returned.
C34_GateNamesLiveObserver ==
    g_active_hotplug_observer # 0 =>
        ob[g_active_hotplug_observer].state \in {"constructing", "alive",
                                                 "destroying"}

\* C35: the gate never calls through a null handler, and when it invokes a
\* handler the observer it found registered is still the registered one.
C35_NoCallThroughNullHandler ==
    /\ gate_fault # "null_handler_called"
    /\ gate_call.ptr # 0 => gate_call.active = gate_call.ptr

\* C36: the gate invokes no handler on an observer whose constructor has not
\* returned.
C36_NoCallbackDuringConstruction ==
    gate_call.obs_state # "constructing"

\* --------------------------------------------------------- claims, SpecRace

\* C11: the refresh of the notification handler and the refresh of
\* lrm_observer_refresh are never both between the first enumeration and the
\* last store of refreshInternal.
C11_RefreshesExclusive ==
    ~(refresh_pc["caller"] # "idle" /\ refresh_pc["queue"] # "idle")

\* the topology t after the changes h, the first of which is change n + 1
RECURSIVE Replay(_, _, _)
Replay(t, h, n) ==
    IF h = <<>> THEN t
    ELSE LET c == Head(h)
             u == IF c[1] = "attach"
                  THEN [t EXCEPT ![c[2]] =
                           Append(@, [dev |-> c[3], ref |-> n + 1])]
                  ELSE [t EXCEPT ![c[2]] =
                           SelectSeq(@, LAMBDA e : e.dev # c[3])]
         IN  Replay(u, Tail(h), n + 1)

\* every setup the backend has had since the behaviour began
PastTopologies ==
    {Replay(t0, SubSeq(history, 1, k), 0) :
        t0 \in {t \in InitialTopologies : Replay(t, history, 0) = topology},
        k \in 0..Len(history)}

MacPortsOf(t) == [i \in 1..Len(t) |-> MacPort(t[i])]

\* C28: what a count or get finds at any moment is one whole snapshot: the
\* two cached lists are the input list and the output list of one and the
\* same setup of the backend.
C28_SnapshotReplacedAtomically ==
    lrm_state = "live" =>
        \E t \in PastTopologies :
            /\ input_ports = MacPortsOf(t["input"])
            /\ output_ports = MacPortsOf(t["output"])

\* ---------------------------------------------------------- claims, SpecApi

\* C12: a call with the handle of a freed observer returns LRM_ERR_INVALID
\* and does not read the freed object.
C12_DisposedHandleRejected ==
    (api_last.op # "none" /\ api_last.handle = "freed") =>
        /\ api_last.has_result
        /\ api_last.rc = LRM_ERR_INVALID
        /\ ~api_last.reads_freed

\* C13: a call with a null handle returns LRM_ERR_INVALID, whichever
\* operation it is, and writes nothing.
C13_NullHandleInvalid ==
    (api_last.op \in {"refresh", "get_input_count", "get_output_count",
                      "get_input", "get_output"}
        /\ api_last.handle = "null") =>
        /\ api_last.has_result
        /\ api_last.rc = LRM_ERR_INVALID
        /\ api_last.info = NoInfo

\* C14: on a live handle, lrm_observer_get_input and lrm_observer_get_output
\* return LRM_ERR_NOT_FOUND and leave the caller's record as it was exactly
\* when the index is negative or not below the count of the direction;
\* otherwise they return LRM_OK and the record describes the port at that
\* position of the cache, with its index and its direction.
C14_GetByIndex ==
    [][(api_last' # api_last /\ api_last'.handle = "live"
            /\ api_last'.op \in {"get_input", "get_output"}) =>
        LET is_input == api_last'.op = "get_input"
            ports == IF is_input THEN input_ports ELSE output_ports
            count == IF is_input THEN lrm_observer_get_input_count
                     ELSE lrm_observer_get_output_count
            index == api_last'.index
        IN  IF index < 0 \/ index >= count
            THEN /\ api_last'.rc = LRM_ERR_NOT_FOUND
                 /\ api_last'.info = NoInfo
            ELSE /\ api_last'.rc = LRM_OK
                 /\ api_last'.info.index = index
                 /\ api_last'.info.is_input = is_input
                 /\ api_last'.info.port_id = ports[index + 1].port
                 /\ api_last'.info.port_name = ports[index + 1].port_name
                 /\ api_last'.info.transport_type = ports[index + 1].type
                 /\ api_last'.info.stable_id = stable_id_of(ports[index + 1])
      ]_vars

\* The second input of a cache of two has been read, after a call that was
\* out of range would have been possible on the same cache.
C14_Witness ==
    /\ api_last.handle = "live"
    /\ api_last.op = "get_input"
    /\ api_last.index = 1
    /\ api_last.rc = LRM_OK
    /\ api_last.info.index = 1
    /\ Len(input_ports) = 2
    /\ Len(topology["input"]) > Len(input_ports)

\* -------------------------------------------------------- claims, SpecList

\* C39: an enumeration that has returned gave one port for each port the
\* backend has in its direction, in the backend's order and with the fields
\* of that port, whatever the other thread was enumerating meanwhile.
C39_EnumerationUndisturbed ==
    enum_last.thread # "none" =>
        enum_last.ports = get_ports(enum_last.dir)

====
